---- MODULE Spec2Model ----
(***************************************************************************)
(* The helper layer of the 6-axis-robot FreeCAD macros                     *)
(* (src/useful_functions.py and the copies of it pasted into each recipe   *)
(* script) and the document of the host CAD session it acts on.            *)
(*                                                                         *)
(* Numbers.  The scripts compute in Python floats over lengths that are    *)
(* small decimals and angles that are multiples of 45 degrees.  The model  *)
(* computes exactly in the ring Z[sqrt 2][1/2]: a number is the record     *)
(* [a, b, k] standing for (a + b*sqrt(2)) / 2^k, kept normalised (k is the *)
(* least exponent for which a and b are integers), so that equality of     *)
(* records is equality of numbers.  Rounding of floats is not modelled.    *)
(***************************************************************************)
EXTENDS Integers, Sequences, FiniteSets, TLC

RECURSIVE Pow2(_)
Pow2(n) == IF n = 0 THEN 1 ELSE 2 * Pow2(n - 1)

RECURSIVE Norm(_)
Norm(x) ==
    IF x.k > 0 /\ x.a % 2 = 0 /\ x.b % 2 = 0
    THEN Norm([a |-> x.a \div 2, b |-> x.b \div 2, k |-> x.k - 1])
    ELSE x

Num(a, b, k) == Norm([a |-> a, b |-> b, k |-> k])
I(n) == [a |-> n, b |-> 0, k |-> 0]
Zero == I(0)
One == I(1)

Add(x, y) ==
    IF x.k >= y.k
    THEN Num(x.a + y.a * Pow2(x.k - y.k), x.b + y.b * Pow2(x.k - y.k), x.k)
    ELSE Num(x.a * Pow2(y.k - x.k) + y.a, x.b * Pow2(y.k - x.k) + y.b, y.k)
Neg(x) == [a |-> 0 - x.a, b |-> 0 - x.b, k |-> x.k]
Sub(x, y) == Add(x, Neg(y))
Mul(x, y) ==
    IF x = Zero \/ y = Zero THEN Zero
    ELSE Num(x.a * y.a + 2 * x.b * y.b, x.a * y.b + x.b * y.a, x.k + y.k)
Half(x) == Num(x.a, x.b, x.k + 1)

\* The sign of a + b*sqrt(2): -1, 0 or 1.
Sign(x) ==
    LET a == x.a
        b == x.b
        d == a * a - 2 * b * b
    IN  IF a = 0 /\ b = 0 THEN 0
        ELSE IF a >= 0 /\ b >= 0 THEN 1
        ELSE IF a <= 0 /\ b <= 0 THEN 0 - 1
        ELSE IF a > 0 - 2 * b /\ a > 2 * b THEN 1
        ELSE IF a < 0 - 2 * b /\ a < 2 * b THEN 0 - 1
        ELSE IF a > 0 THEN (IF d > 0 THEN 1 ELSE 0 - 1)
        ELSE (IF d < 0 THEN 1 ELSE 0 - 1)
Leq(x, y) == Sign(Sub(y, x)) >= 0
Lt(x, y) == Sign(Sub(y, x)) > 0

(***************************************************************************)
(* App.Vector and App.Rotation.  A vector is a triple of numbers.  A       *)
(* rotation is modelled by its 3x3 matrix (a triple of rows): FreeCAD      *)
(* keeps a unit quaternion, and multVec and multiply act as the matrix     *)
(* does.                                                                   *)
(***************************************************************************)
Vector(x, y, z) == <<x, y, z>>
VecI(x, y, z) == <<I(x), I(y), I(z)>>
VAdd(u, v) ==
    CHOOSE w \in {<<Add(a[1], b[1]), Add(a[2], b[2]), Add(a[3], b[3])>> :
                      a \in {u}, b \in {v}} : TRUE
VSub(u, v) ==
    CHOOSE w \in {<<Sub(a[1], b[1]), Sub(a[2], b[2]), Sub(a[3], b[3])>> :
                      a \in {u}, b \in {v}} : TRUE
VNeg(u) == <<Neg(u[1]), Neg(u[2]), Neg(u[3])>>
Dot(u, v) == Add(Add(Mul(u[1], v[1]), Mul(u[2], v[2])), Mul(u[3], v[3]))

\* cos and sin of a whole number of degrees that is a multiple of 45.
Cos45 == <<I(1), Num(0, 1, 1), I(0), Num(0, 0 - 1, 1),
           I(0 - 1), Num(0, 0 - 1, 1), I(0), Num(0, 1, 1)>>
cos(deg) == Cos45[((deg % 360) \div 45) + 1]
sin(deg) == cos(deg - 90)

\* TLC evaluates an argument of an operator where it is first used.  The
\* operators on vectors, rotations and boxes bind theirs first (CHOOSE over
\* a one-element set), so that a composition is evaluated factor by factor
\* and not at one depth of nesting per factor.
\* Rotation.multVec(v)
multVec(R, v) ==
    CHOOSE w \in {<<Dot(r[1], u), Dot(r[2], u), Dot(r[3], u)>> :
                      r \in {R}, u \in {v}} : TRUE
Col(M, j) == <<M[1][j], M[2][j], M[3][j]>>
\* A.multiply(B): the rotation that applies B first and A second.
MRow(A, B, i) ==
    <<Dot(A[i], Col(B, 1)), Dot(A[i], Col(B, 2)), Dot(A[i], Col(B, 3))>>
multiply(A, B) ==
    CHOOSE M \in {<<MRow(a, b, 1), MRow(a, b, 2), MRow(a, b, 3)>> :
                      a \in {A}, b \in {B}} : TRUE
\* The inverse of a rotation: its transpose.
inverted(R) == <<Col(R, 1), Col(R, 2), Col(R, 3)>>

\* App.Rotation(axis, angle) for the coordinate axes "X", "Y", "Z".
AxisRotation(axis, deg) ==
    LET c == cos(deg)
        s == sin(deg)
        m == Neg(s)
    IN  CASE axis = "X" -> <<<<One, Zero, Zero>>, <<Zero, c, m>>, <<Zero, s, c>>>>
          [] axis = "Y" -> <<<<c, Zero, s>>, <<Zero, One, Zero>>, <<m, Zero, c>>>>
          [] axis = "Z" -> <<<<c, m, Zero>>, <<s, c, Zero>>, <<Zero, Zero, One>>>>

Identity == AxisRotation("Z", 0)

\* App.Rotation(yaw, pitch, roll): Euler angles in degrees, yaw about Z,
\* pitch about Y, roll about X, composed as Rz(yaw) * Ry(pitch) * Rx(roll).
EulerRotation(yaw, pitch, roll) ==
    multiply(AxisRotation("Z", yaw),
             multiply(AxisRotation("Y", pitch), AxisRotation("X", roll)))

\* create_rotation with the triple read as (pitch, yaw, roll)
create_rotation_pitch_yaw_roll(t) == EulerRotation(t[2], t[1], t[3])

\* create_rotation with the triple read as (roll, pitch, yaw)
create_rotation_roll_pitch_yaw(t) == EulerRotation(t[3], t[2], t[1])

\* App.Rotation(*rotation_in_degrees_tuple)
create_rotation(t) == EulerRotation(t[1], t[2], t[3])

\* The loop of compound_rotation with the accumulator acc: each further
\* rotation is multiplied onto the accumulated one from the left.
RECURSIVE compound_loop(_, _)
compound_loop(acc, list) ==
    IF list = <<>> THEN acc
    ELSE compound_loop(multiply(create_rotation(Head(list)), acc), Tail(list))

\* The loop with each further rotation multiplied on from the right.
RECURSIVE compound_loop_post(_, _)
compound_loop_post(acc, list) ==
    IF list = <<>> THEN acc
    ELSE compound_loop_post(multiply(acc, create_rotation(Head(list))), Tail(list))

compound_rotation_post(list) == compound_loop_post(AxisRotation("Z", 0), list)

compound_rotation(list) == compound_loop(AxisRotation("Z", 0), list)

(***************************************************************************)
(* The document.  doc is the sequence of the objects of the active         *)
(* document in creation order; an object is referred to by its index.      *)
(* held is the set of objects a script has been handed (return values):    *)
(* only these can be arguments of later calls.                             *)
(***************************************************************************)
VARIABLES doc, held, pc, err, ret, last, calls

vars == <<doc, held, pc, err, ret, last, calls>>

\* App.Placement(base, rotation)
Placement(base, rotation) == [Base |-> base, Rotation |-> rotation]
\* Placement.multVec(v)
placeVec(P, v) == VAdd(multVec(P.Rotation, v), P.Base)
\* the point of an object's own frame that a placement carries to p
unplaceVec(P, p) == multVec(inverted(P.Rotation), VSub(p, P.Base))
\* Placement.multiply: T after P
placeMul(T, P) ==
    Placement(placeVec(T, P.Base), multiply(T.Rotation, P.Rotation))

NoShape ==
    [kind |-> "none", outer |-> Zero, inner |-> Zero, height |-> Zero,
     position |-> VecI(0, 0, 0)]

\* Document.addObject gives an object a name no other object has: the
\* requested one, numbered when it is taken.
UniqueName(d, base) ==
    [base |-> base,
     n |-> Cardinality({i \in 1..Len(d) : d[i].Name.base = base})]

\* A fresh object as addObject(TypeId, name) leaves it: default
\* properties, identity placement, no shape computed yet.
addObject(d, type, name) ==
    [TypeId |-> type, Name |-> UniqueName(d, name),
     Label |-> UniqueName(d, name),
     Placement |-> Placement(VecI(0, 0, 0), Identity),
     Radius |-> Zero, Height |-> Zero, Length |-> Zero, Width |-> Zero,
     Base |-> 0, Tool |-> 0, Links |-> <<>>, Shape |-> NoShape,
     Computed |-> FALSE]

\* Document.recompute(), when it completes: every object has its shape.
recompute(d) == [i \in 1..Len(d) |-> [d[i] EXCEPT !.Computed = TRUE]]

\* Document.getObject(name): the index of the object, 0 for None.
getObject(d, name) ==
    IF \E i \in 1..Len(d) : d[i].Name = name
    THEN CHOOSE i \in 1..Len(d) : d[i].Name = name
    ELSE 0

(***************************************************************************)
(* Geometry of the host kernel, as far as the helpers read it: which       *)
(* points a solid contains (a primitive under its placement, a Cut as its  *)
(* Base without its Tool, a Fuse or Compound as the union of its members,  *)
(* the result carried by the object's own placement) and its bounding box. *)
(***************************************************************************)
Sq(x) == Mul(x, x)

InCylinder(r, h, q) ==
    /\ Leq(Zero, q[3]) /\ Leq(q[3], h)
    /\ Leq(Add(Sq(q[1]), Sq(q[2])), Sq(r))

InBox(l, w, h, q) ==
    /\ Leq(Zero, q[1]) /\ Leq(q[1], l)
    /\ Leq(Zero, q[2]) /\ Leq(q[2], w)
    /\ Leq(Zero, q[3]) /\ Leq(q[3], h)

\* outer_cylinder.cut(inner_cylinder): u is the point seen from position
InHollowCylinder(S, u) ==
    /\ InCylinder(S.outer, S.height, u)
    /\ ~ Lt(Add(Sq(u[1]), Sq(u[2])), Sq(S.inner))

\* Whether object d[i] contains the point p; InsideLocal is the same for
\* the point q of the object's own frame.
RECURSIVE Inside(_, _, _), InsideLocal(_, _, _)
Inside(d, i, p) ==
    \E q \in {unplaceVec(d[i].Placement, p)} : InsideLocal(d, d[i], q)

InsideLocal(d, o, q) ==
    CASE o.TypeId = "Part::Cylinder" -> InCylinder(o.Radius, o.Height, q)
      [] o.TypeId = "Part::Box" -> InBox(o.Length, o.Width, o.Height, q)
      [] o.TypeId = "Part::Cut" ->
            Inside(d, o.Base, q) /\ ~ Inside(d, o.Tool, q)
      [] o.TypeId = "Part::Fuse" ->
            Inside(d, o.Base, q) \/ Inside(d, o.Tool, q)
      [] o.TypeId = "Part::Compound" ->
            \E j \in 1..Len(o.Links) : Inside(d, o.Links[j], q)
      [] o.TypeId = "Part::Feature" ->
            InHollowCylinder(o.Shape, VSub(q, o.Shape.position))

MinOf(S) == CHOOSE x \in S : \A y \in S : Leq(x, y)
MaxOf(S) == CHOOSE x \in S : \A y \in S : Leq(y, x)

\* The least box around a set of points.
BoxAround(P) ==
    CHOOSE B \in {[lo |-> <<MinOf({c[1] : c \in Q}), MinOf({c[2] : c \in Q}),
                            MinOf({c[3] : c \in Q})>>,
                   hi |-> <<MaxOf({c[1] : c \in Q}), MaxOf({c[2] : c \in Q}),
                            MaxOf({c[3] : c \in Q})>>] : Q \in {P}} : TRUE

Hull(A, B) == BoxAround({A.lo, A.hi, B.lo, B.hi})

\* The box of a length x width x height box carried by placement C.
BoxBound(l, w, h, C) ==
    BoxAround({placeVec(C, <<x, y, z>>) :
                  x \in {Zero, l}, y \in {Zero, w}, z \in {Zero, h}})

\* sqrt(1 - x^2) for the axis components the model's rotations produce.
SqrtOneMinusSq(x) ==
    CASE Sq(x) = Zero -> One
      [] Sq(x) = One -> Zero
      [] Sq(x) = Half(One) -> Num(0, 1, 1)

\* The box of a cylinder of radius r whose axis runs from b to t along
\* the unit vector a.
AxisBound(r, a, b, t) ==
    BoxAround({<<Add(c[1], Mul(s, Mul(r, SqrtOneMinusSq(a[1])))),
                 Add(c[2], Mul(s, Mul(r, SqrtOneMinusSq(a[2])))),
                 Add(c[3], Mul(s, Mul(r, SqrtOneMinusSq(a[3]))))>> :
                  c \in {b, t}, s \in {I(1), I(0 - 1)}})

\* The box of a cylinder (radius r, height h, axis local Z) carried by C.
CylinderBound(r, h, C) ==
    AxisBound(r, Col(C.Rotation, 3), C.Base, placeVec(C, Vector(Zero, Zero, h)))

\* Shape.BoundBox of object i, its shape carried further by T; BoundLocal
\* is the same for the object o under the whole placement C.  The box of
\* a Cut is taken to be the box of its Base: exact unless the tool removes
\* a whole face of that box; likewise the box of a sloped wall is that of
\* the box its wedge is cut from.
RECURSIVE BoundBox(_, _, _), BoundLocal(_, _, _)
BoundBox(d, i, T) ==
    CHOOSE B \in {BoundLocal(d, d[i], C) :
                      C \in {placeMul(T, d[i].Placement)}} : TRUE

BoundLocal(d, o, C) ==
    CASE o.TypeId = "Part::Cylinder" -> CylinderBound(o.Radius, o.Height, C)
      [] o.TypeId = "Part::Box" -> BoxBound(o.Length, o.Width, o.Height, C)
      [] o.TypeId = "Part::Cut" -> BoundBox(d, o.Base, C)
      [] o.TypeId = "Part::Fuse" ->
            Hull(BoundBox(d, o.Base, C), BoundBox(d, o.Tool, C))
      [] o.TypeId = "Part::Compound" -> BoundBox(d, o.Links[1], C)
      [] o.TypeId = "Part::Feature" /\ o.Shape.kind = "SlopedWall" ->
            BoxBound(o.Shape.length, o.Shape.width, o.Shape.height, C)
      [] o.TypeId = "Part::Feature" /\ o.Shape.kind # "SlopedWall" ->
            CylinderBound(o.Shape.outer, o.Shape.height,
                          placeMul(C, Placement(o.Shape.position, Identity)))

\* BoundBox.Center
Center(B) ==
    CHOOSE c \in {<<Half(Add(b.lo[1], b.hi[1])), Half(Add(b.lo[2], b.hi[2])),
                    Half(Add(b.lo[3], b.hi[3]))>> : b \in {B}} : TRUE

(***************************************************************************)
(* The helpers.  Each takes the document d it acts on and gives the        *)
(* outcome of the call: the document it leaves, the object it returns (0   *)
(* when it returns nothing) and the exception it ends with ("none" when it *)
(* returns).  host is the outcome of the host kernel's part of the call    *)
(* (Document.recompute, Part.makeCylinder and Shape.cut): "ok", or that    *)
(* the kernel raises, either before any shape is computed ("fail_first")   *)
(* or at the object added last, the shapes before it computed              *)
(* ("fail_last").                                                          *)
(***************************************************************************)
Return(d, r) == [doc |-> d, ret |-> r, err |-> "none"]
Raise(d, e) == [doc |-> d, ret |-> 0, err |-> e]

\* doc.recompute() that raises at the last object of d
recompute_failing(d, host) ==
    IF host = "fail_first" THEN d
    ELSE Append(recompute(SubSeq(d, 1, Len(d) - 1)), d[Len(d)])

\* recompute_and_return with the object added last removed again when the
\* recompute raises
recompute_and_return_discarding(d, host) ==
    IF host = "ok" THEN Return(recompute(d), Len(d))
    ELSE Raise(SubSeq(d, 1, Len(d) - 1), "RecomputeError")

\* recompute_and_return with the recompute left out
return_without_recompute(d, host) == Return(d, Len(d))

\* doc.recompute() as the last statement before "return <the last object>"
recompute_and_return(d, host) ==
    IF host = "ok" THEN Return(recompute(d), Len(d))
    ELSE Raise(recompute_failing(d, host), "RecomputeError")

create_cylinder(d, height, radius, position) ==
    Return(Append(d, [addObject(d, "Part::Cylinder", "Cylinder") EXCEPT
                         !.Height = height,
                         !.Radius = radius,
                         !.Placement = Placement(position, AxisRotation("Z", 0))]),
           Len(d) + 1)

\* add_cut with the Tool never set
add_cut_without_tool(d, base, tool) ==
    Append(d, [addObject(d, "Part::Cut", "Cut") EXCEPT !.Base = base])

\* add_cut that also carries the base to where the tool is
add_cut_moving_base(d, base, tool) ==
    Append([d EXCEPT ![base].Placement = d[tool].Placement],
           [addObject(d, "Part::Cut", "Cut") EXCEPT
               !.Base = base, !.Tool = tool])

\* addObject("Part::Cut", "Cut") with its Base and Tool set
add_cut(d, base, tool) ==
    Append(d, [addObject(d, "Part::Cut", "Cut") EXCEPT
                  !.Base = base, !.Tool = tool])

cut(d, base_cylinder, tool_cylinder, host) ==
    recompute_and_return(add_cut(d, base_cylinder, tool_cylinder), host)

\* hole_rotation_of with line 53 applied to lists only: a tuple leaves the
\* rotation of line 52
hole_rotation_of_lists_only(hole_rotation) ==
    IF hole_rotation.form = "tuple"
    THEN AxisRotation("Z", 0)
    ELSE compound_rotation(hole_rotation.value)

\* hole_rotation is [form |-> "tuple", value |-> t] for a tuple t and
\* [form |-> "list", value |-> l] for a list l of tuples.
hole_rotation_of(hole_rotation) ==
    IF hole_rotation.form = "tuple"
    THEN create_rotation(hole_rotation.value)
    ELSE compound_rotation(hole_rotation.value)

\* hole_created with Radius = hole_diameter
hole_created_full_radius(d, hole_diameter, hole_height, hole_position) ==
    [addObject(d, "Part::Cylinder", "Hole") EXCEPT
        !.Radius = hole_diameter,
        !.Height = hole_height,
        !.Placement = Placement(hole_position, AxisRotation("Z", 0))]

\* hole_created with Height = hole_height / 2
hole_created_half_height(d, hole_diameter, hole_height, hole_position) ==
    [addObject(d, "Part::Cylinder", "Hole") EXCEPT
        !.Radius = Half(hole_diameter),
        !.Height = Half(hole_height),
        !.Placement = Placement(hole_position, AxisRotation("Z", 0))]

\* the tool cylinder as created, before it is rotated
hole_created(d, hole_diameter, hole_height, hole_position) ==
    [addObject(d, "Part::Cylinder", "Hole") EXCEPT
        !.Radius = Half(hole_diameter),
        !.Height = hole_height,
        !.Placement = Placement(hole_position, AxisRotation("Z", 0))]

hole_rotated(hole, hole_rotation) ==
    [hole EXCEPT !.Placement.Rotation = hole_rotation_of(hole_rotation)]

\* hole_shifted with the shift along the world Z axis
hole_shifted_world_z(hole, hole_height, through_hole) ==
    IF through_hole
    THEN [hole EXCEPT !.Placement.Base =
             VSub(hole.Placement.Base, Vector(Zero, Zero, Half(hole_height)))]
    ELSE hole

\* hole_shifted with the shift by the whole height
hole_shifted_whole_height(hole, hole_height, through_hole) ==
    IF through_hole
    THEN [hole EXCEPT !.Placement.Base =
             VSub(hole.Placement.Base,
                  multVec(hole.Placement.Rotation,
                          Vector(Zero, Zero, hole_height)))]
    ELSE hole

\* hole_shifted with through_hole ignored
hole_shifted_never(hole, hole_height, through_hole) == hole

\* "if through_hole:" and the shift of the tool's Placement.Base
hole_shifted(hole, hole_height, through_hole) ==
    IF through_hole
    THEN [hole EXCEPT !.Placement.Base =
             VSub(hole.Placement.Base,
                  multVec(hole.Placement.Rotation,
                          Vector(Zero, Zero, Half(hole_height))))]
    ELSE hole

\* The document with the tool of make_hole added to it.
add_hole(d, hole_diameter, hole_height, hole_position, hole_rotation, through_hole) ==
    Append(d, hole_shifted(hole_rotated(hole_created(d, hole_diameter,
                                                     hole_height, hole_position),
                                        hole_rotation),
                           hole_height, through_hole))

\* The Cut of make_hole, added to the document d that ends with the tool.
add_hole_cut(d, part) == add_cut(d, part, Len(d))

make_hole(d, part, hole_diameter, hole_height, hole_position, hole_rotation, through_hole, host) ==
    recompute_and_return(
        add_hole_cut(add_hole(d, hole_diameter, hole_height, hole_position,
                              hole_rotation, through_hole), part),
        host)

\* join_parts with Base and Tool the other way round
join_parts_swapped(d, part1, part2, host) ==
    recompute_and_return(
        Append(d, [addObject(d, "Part::Fuse", "FusedPart") EXCEPT
                      !.Base = part2, !.Tool = part1]),
        host)

join_parts(d, part1, part2, host) ==
    recompute_and_return(
        Append(d, [addObject(d, "Part::Fuse", "FusedPart") EXCEPT
                      !.Base = part1, !.Tool = part2]),
        host)

\* The scripts that define create_centered_rectangle, by the offset they
\* give the box: create_base_v1.py and the unnamed copy of it swap length
\* and width, every other script agrees with useful_functions.py.
RectangleDefs == {"useful_functions", "create_base_v1", "part_000"}

\* line 102 of src/unnamed/part_000 in every definition
rectangle_offset_swapped(def, length, width) ==
    Vector(Neg(Half(width)), Neg(Half(length)), Zero)

rectangle_offset(def, length, width) ==
    IF def \in {"create_base_v1", "part_000"}
    THEN Vector(Neg(Half(width)), Neg(Half(length)), Zero)
    ELSE Vector(Neg(Half(length)), Neg(Half(width)), Zero)

add_rectangle(d, def, length, width, height) ==
    Append(d, [addObject(d, "Part::Box", "CenteredRectangle") EXCEPT
                  !.Length = length,
                  !.Width = width,
                  !.Height = height,
                  !.Placement = Placement(rectangle_offset(def, length, width),
                                          Identity)])

\* The compound around the box that ends the document d.
add_compound(d, label) ==
    Append(d, [addObject(d, "Part::Compound", label) EXCEPT
                  !.Links = <<Len(d)>>])

create_centered_rectangle(d, def, length, width, height, label, host) ==
    recompute_and_return(
        add_compound(add_rectangle(d, def, length, width, height), label),
        host)

\* App.Placement(center, rotation) with its Base replaced by
\* new_placement.multVec(-center)
placement_around(center, rotation) ==
    Placement(placeVec(Placement(center, rotation), VNeg(center)), rotation)

\* The body of rotate_object_around_center for the object obj it found.
rotate_found(d, obj, axis, angle) ==
    Return([d EXCEPT ![obj].Placement =
                placement_around(
                    Center(BoundBox(d, obj, Placement(VecI(0, 0, 0), Identity))),
                    AxisRotation(axis, angle))],
           0)

\* rotate_object_around_center returning quietly when the lookup fails
rotate_object_skipping_missing(d, object_name, axis, angle) ==
    IF getObject(d, object_name) = 0 THEN Return(d, 0)
    ELSE rotate_found(d, getObject(d, object_name), axis, angle)

rotate_object_around_center(d, object_name, axis, angle) ==
    IF getObject(d, object_name) = 0 THEN Raise(d, "ValueError")
    ELSE rotate_found(d, getObject(d, object_name), axis, angle)

\* the check as "if inner_radius > outer_radius:"
radii_rejected_when_greater(outer_radius, inner_radius) ==
    Lt(outer_radius, inner_radius)

\* the check rejecting an inner radius of zero as well
radii_rejected_unless_positive(outer_radius, inner_radius) ==
    Leq(outer_radius, inner_radius) \/ Leq(inner_radius, Zero)

\* "if inner_radius >= outer_radius:"
radii_rejected(outer_radius, inner_radius) == Leq(outer_radius, inner_radius)

create_hollow_cylinder(d, outer_radius, inner_radius, height, position, host) ==
    IF radii_rejected(outer_radius, inner_radius) THEN Raise(d, "ValueError")
    ELSE IF host # "ok" THEN Raise(d, "OCCError")
    ELSE Return(Append(d, [addObject(d, "Part::Feature", "HollowCylinder") EXCEPT
                              !.Shape = [kind |-> "HollowCylinder",
                                         outer |-> outer_radius,
                                         inner |-> inner_radius,
                                         height |-> height,
                                         position |-> position],
                              !.Computed = TRUE]),
                Len(d) + 1)


\* create_sloped_wall: the wall's shape is made by the kernel from the
\* arguments (a box with a wedge cut off) and is kept here as the
\* arguments that determine it.
add_sloped_wall(d, length, height, width, slope_angle, offset_length) ==
    Append(d, [addObject(d, "Part::Feature", "SlopedWallInternal") EXCEPT
                  !.Shape = [kind |-> "SlopedWall", length |-> length,
                             height |-> height, width |-> width,
                             slope_angle |-> slope_angle,
                             offset_length |-> offset_length],
                  !.Placement = Placement(Vector(Neg(Half(length)),
                                                 Neg(Half(width)), Zero),
                                          AxisRotation("Z", 0)),
                  !.Computed = TRUE])

create_sloped_wall(d, length, height, width, slope_angle, offset_length, label, host) ==
    recompute_and_return(
        add_compound(add_sloped_wall(d, length, height, width, slope_angle,
                                     offset_length),
                     label),
        host)

\* A recipe's own statement "solid.Placement = App.Placement(App.Vector(x,
\* y, z), App.Rotation(App.Vector(0, 0, 1), angle_deg))".
assign_placement(d, obj, position, angle_deg) ==
    Return([d EXCEPT ![obj].Placement =
                Placement(position, AxisRotation("Z", angle_deg))],
           0)

\* The edge of the box of reset_rotation, 0.001, taken as the nearest power
\* of two (1/1024), and the place the box is put at.
ResetBoxEdge == Num(1, 0, 10)
ResetBoxPosition == VecI(100000, 100000, 100000)

\* reset_rotation_cut with the box left where it was made
reset_rotation_cut_unmoved(r, obj, host_cut) ==
    IF r.err # "none" THEN r
    ELSE cut(r.doc, obj, r.ret, host_cut)

\* reset_rotation from its second statement on; r is the outcome of its
\* first, the call of create_centered_rectangle.
reset_rotation_cut(r, obj, host_cut) ==
    IF r.err # "none" THEN r
    ELSE cut(assign_placement(r.doc, r.ret, ResetBoxPosition, 0).doc,
             obj, r.ret, host_cut)

reset_rotation(d, obj, host_rectangle, host_cut) ==
    reset_rotation_cut(
        create_centered_rectangle(d, "useful_functions", ResetBoxEdge,
                                  ResetBoxEdge, ResetBoxEdge, "ResetRotation",
                                  host_rectangle),
        obj, host_cut)

(***************************************************************************)
(* Spec: a recipe, as a script that performs the recipes' statements (the  *)
(* helper calls and the placement assignments) in any order on the active  *)
(* document, with arguments drawn from the sets below, until a statement   *)
(* raises.  No script of the repository catches an exception: the first    *)
(* one raised ends the script.  last is the statement performed last and   *)
(* the document it was performed on.                                       *)
(***************************************************************************)
MaxCalls == 2

CylinderHeights == {I(8)}
CylinderRadii == {I(3)}
Positions == {VecI(0, 0, 0), VecI(1, 0, 2)}
\* <<hole_diameter, hole_height>>
HoleSizes == {<<I(2), I(4)>>, <<I(0), I(3)>>}
HoleRotations ==
    {[form |-> "tuple", value |-> <<0, 0, 0>>],
     [form |-> "tuple", value |-> <<0, 90, 0>>],
     [form |-> "list", value |-> <<<<0, 90, 0>>, <<45, 0, 0>>>>]}
\* <<length, width, height>>
RectangleSizes == {<<I(2), I(4), I(1)>>}
\* <<outer_radius, inner_radius>>
HollowRadii == {<<I(3), I(1)>>, <<I(2), I(0)>>, <<I(2), I(2)>>, <<I(1), I(3)>>}
\* <<axis, angle>>
AxisAngles == {<<"Y", 45>>, <<"Z", 90>>}
Host == {"ok", "fail_first", "fail_last"}

\* The names a script may ask getObject for: those of the objects it
\* holds and one no object ever has.
ObjectNames ==
    {doc[i].Name : i \in held} \cup {[base |-> "Missing", n |-> 0]}

Init ==
    /\ doc = <<>>
    /\ held = {}
    /\ pc = "run"
    /\ err = "none"
    /\ ret = 0
    /\ last = [op |-> "none", args |-> <<>>, doc |-> <<>>]
    /\ calls = 0

\* after_call of a script that catches the exception and goes on
after_call_caught(e) == "run"

\* Where the script is after a statement that ended with e: an exception
\* leaves main() and, uncaught, the script.
after_call(e) == IF e = "none" THEN "run" ELSE "error"

\* One statement with outcome r.
Call(op, args, r) ==
    /\ pc = "run"
    /\ calls < MaxCalls
    /\ doc' = r.doc
    /\ ret' = r.ret
    /\ err' = r.err
    /\ pc' = after_call(r.err)
    /\ held' = IF r.ret = 0 THEN held ELSE held \cup {r.ret}
    /\ calls' = calls + 1
    /\ last' = [op |-> op, args |-> args, doc |-> doc]

CallCreateCylinder ==
    \E h \in CylinderHeights, r \in CylinderRadii, p \in Positions :
        Call("create_cylinder", [height |-> h, radius |-> r, position |-> p],
             create_cylinder(doc, h, r, p))

CallCut ==
    \E b \in held, t \in held, host \in Host :
        Call("cut", [base |-> b, tool |-> t, host |-> host],
             cut(doc, b, t, host))

CallMakeHole ==
    \E part \in held, sz \in HoleSizes, p \in Positions,
       rot \in HoleRotations, through \in BOOLEAN, host \in Host :
        Call("make_hole",
             [part |-> part, hole_diameter |-> sz[1], hole_height |-> sz[2],
              hole_position |-> p, hole_rotation |-> rot,
              through_hole |-> through, host |-> host],
             make_hole(doc, part, sz[1], sz[2], p, rot, through, host))

CallJoinParts ==
    \E p1 \in held, p2 \in held, host \in Host :
        Call("join_parts", [part1 |-> p1, part2 |-> p2, host |-> host],
             join_parts(doc, p1, p2, host))

CallCreateCenteredRectangle ==
    \E def \in RectangleDefs, sz \in RectangleSizes, host \in Host :
        Call("create_centered_rectangle",
             [def |-> def, length |-> sz[1], width |-> sz[2], height |-> sz[3],
              host |-> host],
             create_centered_rectangle(doc, def, sz[1], sz[2], sz[3],
                                       "Compound", host))

\* The bounding box of an object whose shape was never computed is the
\* host's affair: the call is modelled for objects that have a shape.
CallRotateObjectAroundCenter ==
    \E name \in ObjectNames, aa \in AxisAngles :
        /\ getObject(doc, name) # 0 => doc[getObject(doc, name)].Computed
        /\ Call("rotate_object_around_center",
                [object_name |-> name, axis |-> aa[1], angle |-> aa[2]],
                rotate_object_around_center(doc, name, aa[1], aa[2]))

CallCreateHollowCylinder ==
    \E rr \in HollowRadii, h \in {I(2)}, p \in {VecI(0, 0, 0)}, host \in Host :
        Call("create_hollow_cylinder",
             [outer_radius |-> rr[1], inner_radius |-> rr[2], height |-> h,
              position |-> p, host |-> host],
             create_hollow_cylinder(doc, rr[1], rr[2], h, p, host))

AssignPlacement ==
    \E obj \in held, p \in {VecI(1, 0, 2)}, angle_deg \in {45} :
        Call("assign_placement",
             [obj |-> obj, position |-> p, angle_deg |-> angle_deg],
             assign_placement(doc, obj, p, angle_deg))

Next ==
    \/ CallCreateCylinder
    \/ CallCut
    \/ CallMakeHole
    \/ CallJoinParts
    \/ CallCreateCenteredRectangle
    \/ CallRotateObjectAroundCenter
    \/ CallCreateHollowCylinder
    \/ AssignPlacement

Spec == Init /\ [][Next]_vars

(***************************************************************************)
(* SpecRot: compound_rotation as a function of its argument.  The list of  *)
(* degree triples is drawn at the start and compound_rotation is applied   *)
(* to it once; ret is then the rotation it returned.                       *)
(***************************************************************************)
MaxRotLen == 2

Angles45 == {0, 45, 90, 135, 180, 225, 270, 315}
RotTriples ==
    {<<a, 0, 0>> : a \in Angles45} \cup {<<0, 90, 0>>, <<0, 45, 0>>, <<0, 0, 90>>}
RotLists == UNION {[1..n -> RotTriples] : n \in 0..MaxRotLen}

InitRot ==
    \E list \in RotLists :
        /\ doc = <<>>
        /\ held = {}
        /\ pc = "call"
        /\ err = "none"
        /\ ret = 0
        /\ last = [op |-> "compound_rotation",
                   args |-> [rotation_in_degrees_list_of_tuples |-> list],
                   doc |-> <<>>]
        /\ calls = 0

CallCompoundRotation ==
    /\ pc = "call"
    /\ ret' = compound_rotation(last.args.rotation_in_degrees_list_of_tuples)
    /\ pc' = "returned"
    /\ calls' = calls + 1
    /\ UNCHANGED <<doc, held, err, last>>

NextRot == CallCompoundRotation

SpecRot == InitRot /\ [][NextRot]_vars

(***************************************************************************)
(* SpecPair: the boolean helpers as functions of the solids they are       *)
(* given.  The script has made two solids with the factories, the second   *)
(* one beside, inside, upon or far from the first, and performs one more   *)
(* statement: a call of a factory, or of cut, make_hole, join_parts or     *)
(* reset_rotation on the solids it holds.                                  *)
(***************************************************************************)
\* <<height, radius, position>> of the first cylinder
FirstSolids ==
    {<<I(8), I(3), VecI(0, 0, 0)>>, <<I(4), I(2), VecI(1, 0, 2)>>,
     <<I(2), I(1), VecI(0, 0, 0 - 1)>>}
\* <<height, radius, position>> of the second cylinder
SecondSolids ==
    {<<I(8), I(3), VecI(0, 0, 0)>>, <<I(2), I(1), VecI(1, 0, 2)>>,
     <<I(2), I(1), VecI(20, 0, 0)>>, <<I(4), I(1), VecI(3, 0, 6)>>}

\* The document after create_cylinder(*a) and create_cylinder(*b).
TwoCylinders(a, b) ==
    create_cylinder(create_cylinder(<<>>, a[1], a[2], a[3]).doc,
                    b[1], b[2], b[3]).doc

\* The document after create_cylinder(*a) and a centered rectangle placed
\* at the position of b, turned by 45 degrees.
CylinderAndRectangle(a, b) ==
    assign_placement(
        create_centered_rectangle(create_cylinder(<<>>, a[1], a[2], a[3]).doc,
                                  "useful_functions", I(2), I(4), I(1),
                                  "Compound", "ok").doc,
        3, b[3], 45).doc

InitPair ==
    \E a \in FirstSolids, b \in SecondSolids :
        /\ \/ doc = TwoCylinders(a, b) /\ held = {1, 2}
           \/ doc = CylinderAndRectangle(a, b) /\ held = {1, 3}
        /\ pc = "call"
        /\ err = "none"
        /\ ret = 0
        /\ last = [op |-> "none", args |-> <<>>, doc |-> <<>>]
        /\ calls = 0

\* The one statement, with outcome r.
Apply(op, args, r) ==
    /\ pc = "call"
    /\ doc' = r.doc
    /\ ret' = r.ret
    /\ err' = r.err
    /\ pc' = IF r.err = "none" THEN "returned" ELSE "error"
    /\ held' = IF r.ret = 0 THEN held ELSE held \cup {r.ret}
    /\ calls' = calls + 1
    /\ last' = [op |-> op, args |-> args, doc |-> doc]

ApplyCut ==
    \E b \in held, t \in held, host \in Host :
        Apply("cut", [base |-> b, tool |-> t, host |-> host],
              cut(doc, b, t, host))

ApplyJoinParts ==
    \E p1 \in held, p2 \in held, host \in Host :
        Apply("join_parts", [part1 |-> p1, part2 |-> p2, host |-> host],
              join_parts(doc, p1, p2, host))

ApplyResetRotation ==
    \E obj \in held, host_rectangle \in Host, host_cut \in Host :
        Apply("reset_rotation",
              [obj |-> obj, host_rectangle |-> host_rectangle,
               host |-> host_cut],
              reset_rotation(doc, obj, host_rectangle, host_cut))

ApplyCreateCylinder ==
    \E c \in SecondSolids :
        Apply("create_cylinder",
              [height |-> c[1], radius |-> c[2], position |-> c[3]],
              create_cylinder(doc, c[1], c[2], c[3]))

ApplyCreateCenteredRectangle ==
    \E sz \in RectangleSizes, host \in Host :
        Apply("create_centered_rectangle",
              [def |-> "useful_functions", length |-> sz[1], width |-> sz[2],
               height |-> sz[3], host |-> host],
              create_centered_rectangle(doc, "useful_functions", sz[1], sz[2],
                                        sz[3], "Compound", host))

ApplyCreateHollowCylinder ==
    \E rr \in HollowRadii, host \in Host :
        Apply("create_hollow_cylinder",
              [outer_radius |-> rr[1], inner_radius |-> rr[2],
               height |-> I(2), position |-> VecI(0, 0, 0), host |-> host],
              create_hollow_cylinder(doc, rr[1], rr[2], I(2), VecI(0, 0, 0),
                                     host))

ApplyCreateSlopedWall ==
    \E sz \in RectangleSizes, slope_angle \in {30, 70}, host \in Host :
        Apply("create_sloped_wall",
              [length |-> sz[1], height |-> sz[3], width |-> sz[2],
               slope_angle |-> slope_angle, offset_length |-> Zero,
               host |-> host],
              create_sloped_wall(doc, sz[1], sz[3], sz[2], slope_angle, Zero,
                                 "Sloped Wall", host))

ApplyMakeHole ==
    \E part \in held, sz \in HoleSizes, through \in BOOLEAN, host \in Host :
        Apply("make_hole",
              [part |-> part, hole_diameter |-> sz[1], hole_height |-> sz[2],
               hole_position |-> VecI(1, 0, 2),
               hole_rotation |-> [form |-> "tuple", value |-> <<0, 0, 0>>],
               through_hole |-> through, host |-> host],
              make_hole(doc, part, sz[1], sz[2], VecI(1, 0, 2),
                        [form |-> "tuple", value |-> <<0, 0, 0>>], through,
                        host))

\* rotate_object_around_center on a solid that has its shape
ApplyRotateObjectAroundCenter ==
    \E obj \in held, aa \in AxisAngles :
        /\ doc[obj].Computed
        /\ Apply("rotate_object_around_center",
                 [object_name |-> doc[obj].Name, axis |-> aa[1],
                  angle |-> aa[2]],
                 rotate_object_around_center(doc, doc[obj].Name, aa[1], aa[2]))

NextPair ==
    \/ ApplyRotateObjectAroundCenter
    \/ ApplyCut
    \/ ApplyJoinParts
    \/ ApplyResetRotation
    \/ ApplyCreateCylinder
    \/ ApplyCreateCenteredRectangle
    \/ ApplyCreateHollowCylinder
    \/ ApplyCreateSlopedWall
    \/ ApplyMakeHole

SpecPair == InitPair /\ [][NextPair]_vars

(***************************************************************************)
(* SpecAngle: the angle of the radial loops as a function of the number of *)
(* features and the loop index.  360 divided by the number of features is  *)
(* an exact float, and the same number here, when that number is a power   *)
(* of two, as it is in the scripts (2, 4 and 8).                           *)
(***************************************************************************)
\* The numbers of features are the powers of two up to 2^MaxHolesLog.
MaxHolesLog == 6

\* x / n for n a power of two
RECURSIVE Quotient(_, _)
Quotient(x, n) == IF n = 1 THEN x ELSE Quotient(Half(x), n \div 2)

\* the angle with the phase a whole step
radial_angle_whole_step(number_of_holes, i) ==
    Add(Mul(Quotient(I(360), number_of_holes), I(i)),
        Quotient(I(360), number_of_holes))

\* angle = (360/number_of_holes * i) + 360/number_of_holes/2
radial_angle(number_of_holes, i) ==
    Add(Mul(Quotient(I(360), number_of_holes), I(i)),
        Quotient(Quotient(I(360), number_of_holes), 2))

InitAngle ==
    \E n \in 0..MaxHolesLog :
        \E i \in 0..(Pow2(n) - 1) :
            /\ doc = <<>>
            /\ held = {}
            /\ pc = "call"
            /\ err = "none"
            /\ ret = 0
            /\ last = [op |-> "radial_angle",
                       args |-> [number_of_holes |-> Pow2(n), i |-> i],
                       doc |-> <<>>]
            /\ calls = 0

CallRadialAngle ==
    /\ pc = "call"
    /\ ret' = radial_angle(last.args.number_of_holes, last.args.i)
    /\ pc' = "returned"
    /\ calls' = calls + 1
    /\ UNCHANGED <<doc, held, err, last>>

\* the sign flip as "if i in [0,1]:"
extra_offset_x_first_two(i) == IF i \in {0, 1} THEN 8 ELSE 0 - 8

\* "extra_offset_x = -8; if i in [0,3]: extra_offset_x = -extra_offset_x"
extra_offset_x(i) == IF i \in {0, 3} THEN 0 - (0 - 8) ELSE 0 - 8

\* The hole position of the last loop of create_second_motor_arm_middle_v3:
\* (x + extra_offset_x, y, 0), x and y the point at angle (whole degrees)
\* on the circle of radius arm_cylinder_radius - m5_head_size = 40 - 9.5.
slot_hole_position(angle, i) ==
    Vector(Add(Mul(cos(angle.a), Num(61, 0, 1)), I(extra_offset_x(i))),
           Mul(sin(angle.a), Num(61, 0, 1)),
           Zero)

\* The rest of the loop body, for the four slots; ret is then the position
\* make_hole is given.
PlaceSlotHole ==
    /\ pc = "returned"
    /\ last.args.number_of_holes = 4
    /\ ret' = slot_hole_position(ret, last.args.i)
    /\ pc' = "placed"
    /\ calls' = calls + 1
    /\ UNCHANGED <<doc, held, err, last>>

NextAngle ==
    \/ CallRadialAngle
    \/ PlaceSlotHole

SpecAngle == InitAngle /\ [][NextAngle]_vars

(***************************************************************************)
(* SpecRecipe: whole runs of recipe scripts.  A recipe is the sequence of  *)
(* statements its main performs, loops unrolled, each with the line it is  *)
(* on, the variable it assigns (out) and the variables and numbers it is   *)
(* given; a number is kept to the nearest eighth.  held is the recipe's    *)
(* variables, each with the object it is bound to, and calls the number of *)
(* statements the run has performed.  The script is run from its top in a  *)
(* session that has an active document or none, and may be run a second    *)
(* time on the document its first run left.                                *)
(***************************************************************************)
\* n eighths
Q8(n) == Num(n, 0, 3)

motor_hole_test_main ==
    <<
     [line |-> 213, op |-> "create_cylinder", out |-> "test_cylinder",
      height |-> Q8(40), radius |-> Q8(168),
      position |-> <<Q8(0), Q8(0), Q8(0)>>],
     [line |-> 217, op |-> "make_hole", out |-> "test_cylinder",
      part |-> "test_cylinder", hole_diameter |-> Q8(146),
      hole_height |-> Q8(8000), hole_position |-> <<Q8(0), Q8(0), Q8(0)>>,
      hole_rotation |-> [form |-> "tuple", value |-> <<0, 0, 0>>],
      through_hole |-> TRUE],
     [line |-> 223, op |-> "create_centered_rectangle", out |-> "key_hole",
      length |-> Q8(51), width |-> Q8(51), height |-> Q8(8000),
      label |-> "Compound"],
     [line |-> 226, op |-> "assign_placement", out |-> "",
      obj |-> "key_hole", position |-> <<Q8(0), Q8(0 - 90), Q8(0 - 4000)>>,
      rotation |-> [form |-> "axis", angle |-> 0]],
     [line |-> 228, op |-> "cut", out |-> "test_cylinder",
      base |-> "test_cylinder", tool |-> "key_hole"]
    >>

holder_in_reduction_main ==
    <<
     [line |-> 398, op |-> "create_centered_rectangle",
      out |-> "motor_reduction_side", length |-> Q8(680), width |-> Q8(40),
      height |-> Q8(680), label |-> "Compound"],
     [line |-> 400, op |-> "create_centered_rectangle", out |-> "motor_side",
      length |-> Q8(680), width |-> Q8(40), height |-> Q8(680),
      label |-> "Compound"],
     [line |-> 403, op |-> "rotate_object_around_center", out |-> "",
      obj |-> "motor_side", axis |-> "Y", angle |-> 45],
     [line |-> 407, op |-> "shift_base", out |-> "", obj |-> "motor_side",
      delta |-> <<Q8(0), Q8(40), Q8(0)>>],
     [line |-> 418, op |-> "make_hole", out |-> "motor_side",
      part |-> "motor_side", hole_diameter |-> Q8(54),
      hole_height |-> Q8(8000), hole_position |-> <<Q8(0), Q8(0), Q8(735)>>,
      hole_rotation |-> [form |-> "list", value |-> <<<<0, 90, 0>>, <<90, 0, 0>>>>],
      through_hole |-> TRUE],
     [line |-> 427, op |-> "make_hole", out |-> "motor_side",
      part |-> "motor_side", hole_diameter |-> Q8(160),
      hole_height |-> Q8(8000),
      hole_position |-> <<Q8(240), Q8(0), Q8(580)>>,
      hole_rotation |-> [form |-> "list", value |-> <<<<0, 90, 0>>, <<90, 0, 0>>>>],
      through_hole |-> TRUE],
     [line |-> 418, op |-> "make_hole", out |-> "motor_side",
      part |-> "motor_side", hole_diameter |-> Q8(54),
      hole_height |-> Q8(8000),
      hole_position |-> <<Q8(0 - 395), Q8(0), Q8(340)>>,
      hole_rotation |-> [form |-> "list", value |-> <<<<0, 90, 0>>, <<90, 0, 0>>>>],
      through_hole |-> TRUE],
     [line |-> 427, op |-> "make_hole", out |-> "motor_side",
      part |-> "motor_side", hole_diameter |-> Q8(160),
      hole_height |-> Q8(8000),
      hole_position |-> <<Q8(0 - 240), Q8(0), Q8(580)>>,
      hole_rotation |-> [form |-> "list", value |-> <<<<0, 90, 0>>, <<90, 0, 0>>>>],
      through_hole |-> TRUE],
     [line |-> 418, op |-> "make_hole", out |-> "motor_side",
      part |-> "motor_side", hole_diameter |-> Q8(54),
      hole_height |-> Q8(8000),
      hole_position |-> <<Q8(0), Q8(0), Q8(0 - 55)>>,
      hole_rotation |-> [form |-> "list", value |-> <<<<0, 90, 0>>, <<90, 0, 0>>>>],
      through_hole |-> TRUE],
     [line |-> 427, op |-> "make_hole", out |-> "motor_side",
      part |-> "motor_side", hole_diameter |-> Q8(160),
      hole_height |-> Q8(8000),
      hole_position |-> <<Q8(0 - 240), Q8(0), Q8(100)>>,
      hole_rotation |-> [form |-> "list", value |-> <<<<0, 90, 0>>, <<90, 0, 0>>>>],
      through_hole |-> TRUE],
     [line |-> 418, op |-> "make_hole", out |-> "motor_side",
      part |-> "motor_side", hole_diameter |-> Q8(54),
      hole_height |-> Q8(8000),
      hole_position |-> <<Q8(395), Q8(0), Q8(340)>>,
      hole_rotation |-> [form |-> "list", value |-> <<<<0, 90, 0>>, <<90, 0, 0>>>>],
      through_hole |-> TRUE],
     [line |-> 427, op |-> "make_hole", out |-> "motor_side",
      part |-> "motor_side", hole_diameter |-> Q8(160),
      hole_height |-> Q8(8000),
      hole_position |-> <<Q8(240), Q8(0), Q8(100)>>,
      hole_rotation |-> [form |-> "list", value |-> <<<<0, 90, 0>>, <<90, 0, 0>>>>],
      through_hole |-> TRUE],
     [line |-> 438, op |-> "make_hole", out |-> "motor_reduction_side",
      part |-> "motor_reduction_side", hole_diameter |-> Q8(54),
      hole_height |-> Q8(8000),
      hole_position |-> <<Q8(240), Q8(0), Q8(580)>>,
      hole_rotation |-> [form |-> "list", value |-> <<<<0, 90, 0>>, <<90, 0, 0>>>>],
      through_hole |-> TRUE],
     [line |-> 447, op |-> "make_hole", out |-> "motor_reduction_side",
      part |-> "motor_reduction_side", hole_diameter |-> Q8(160),
      hole_height |-> Q8(8000), hole_position |-> <<Q8(0), Q8(0), Q8(735)>>,
      hole_rotation |-> [form |-> "list", value |-> <<<<0, 90, 0>>, <<90, 0, 0>>>>],
      through_hole |-> TRUE],
     [line |-> 438, op |-> "make_hole", out |-> "motor_reduction_side",
      part |-> "motor_reduction_side", hole_diameter |-> Q8(54),
      hole_height |-> Q8(8000),
      hole_position |-> <<Q8(0 - 240), Q8(0), Q8(580)>>,
      hole_rotation |-> [form |-> "list", value |-> <<<<0, 90, 0>>, <<90, 0, 0>>>>],
      through_hole |-> TRUE],
     [line |-> 447, op |-> "make_hole", out |-> "motor_reduction_side",
      part |-> "motor_reduction_side", hole_diameter |-> Q8(160),
      hole_height |-> Q8(8000),
      hole_position |-> <<Q8(0 - 395), Q8(0), Q8(340)>>,
      hole_rotation |-> [form |-> "list", value |-> <<<<0, 90, 0>>, <<90, 0, 0>>>>],
      through_hole |-> TRUE],
     [line |-> 438, op |-> "make_hole", out |-> "motor_reduction_side",
      part |-> "motor_reduction_side", hole_diameter |-> Q8(54),
      hole_height |-> Q8(8000),
      hole_position |-> <<Q8(0 - 240), Q8(0), Q8(100)>>,
      hole_rotation |-> [form |-> "list", value |-> <<<<0, 90, 0>>, <<90, 0, 0>>>>],
      through_hole |-> TRUE],
     [line |-> 447, op |-> "make_hole", out |-> "motor_reduction_side",
      part |-> "motor_reduction_side", hole_diameter |-> Q8(160),
      hole_height |-> Q8(8000),
      hole_position |-> <<Q8(0), Q8(0), Q8(0 - 55)>>,
      hole_rotation |-> [form |-> "list", value |-> <<<<0, 90, 0>>, <<90, 0, 0>>>>],
      through_hole |-> TRUE],
     [line |-> 438, op |-> "make_hole", out |-> "motor_reduction_side",
      part |-> "motor_reduction_side", hole_diameter |-> Q8(54),
      hole_height |-> Q8(8000),
      hole_position |-> <<Q8(240), Q8(0), Q8(100)>>,
      hole_rotation |-> [form |-> "list", value |-> <<<<0, 90, 0>>, <<90, 0, 0>>>>],
      through_hole |-> TRUE],
     [line |-> 447, op |-> "make_hole", out |-> "motor_reduction_side",
      part |-> "motor_reduction_side", hole_diameter |-> Q8(160),
      hole_height |-> Q8(8000),
      hole_position |-> <<Q8(395), Q8(0), Q8(340)>>,
      hole_rotation |-> [form |-> "list", value |-> <<<<0, 90, 0>>, <<90, 0, 0>>>>],
      through_hole |-> TRUE],
     [line |-> 451, op |-> "join_parts", out |-> "motor_side",
      part1 |-> "motor_side", part2 |-> "motor_reduction_side"],
     [line |-> 457, op |-> "make_hole", out |-> "motor_side",
      part |-> "motor_side", hole_diameter |-> Q8(352),
      hole_height |-> Q8(8000), hole_position |-> <<Q8(0), Q8(0), Q8(340)>>,
      hole_rotation |-> [form |-> "list", value |-> <<<<0, 90, 0>>, <<90, 0, 0>>>>],
      through_hole |-> TRUE],
     [line |-> 459, op |-> "return", out |-> ""],
     [line |-> 462, op |-> "assign_label", out |-> "", obj |-> "motor_side",
      text |-> "Second_Motor_Attachment_To_Reduction"]
    >>

first_joint_v2_main ==
    <<
     [line |-> 372, op |-> "create_cylinder", out |-> "base_cylinder",
      height |-> Q8(144), radius |-> Q8(760),
      position |-> <<Q8(0), Q8(0), Q8(320)>>],
     [line |-> 376, op |-> "create_hollow_cylinder",
      out |-> "hollow_cylinder", outer_radius |-> Q8(760),
      inner_radius |-> Q8(648), height |-> Q8(80),
      position |-> <<Q8(0), Q8(0), Q8(320)>>],
     [line |-> 380, op |-> "cut", out |-> "base_cylinder",
      base |-> "base_cylinder", tool |-> "hollow_cylinder"],
     [line |-> 384, op |-> "create_hollow_cylinder",
      out |-> "hollow_cylinder", outer_radius |-> Q8(552),
      inner_radius |-> Q8(0), height |-> Q8(80),
      position |-> <<Q8(0), Q8(0), Q8(320)>>],
     [line |-> 388, op |-> "cut", out |-> "base_cylinder",
      base |-> "base_cylinder", tool |-> "hollow_cylinder"],
     [line |-> 395, op |-> "create_cylinder",
      out |-> "extra_depth_motor_shaft_base_cylinder", height |-> Q8(144),
      radius |-> Q8(760), position |-> <<Q8(0), Q8(0), Q8(256)>>],
     [line |-> 397, op |-> "create_hollow_cylinder",
      out |-> "hollow_cylinder", outer_radius |-> Q8(760),
      inner_radius |-> Q8(140), height |-> Q8(144),
      position |-> <<Q8(0), Q8(0), Q8(256)>>],
     [line |-> 399, op |-> "cut",
      out |-> "extra_depth_motor_shaft_base_cylinder",
      base |-> "extra_depth_motor_shaft_base_cylinder",
      tool |-> "hollow_cylinder"],
     [line |-> 401, op |-> "join_parts", out |-> "base_cylinder",
      part1 |-> "base_cylinder",
      part2 |-> "extra_depth_motor_shaft_base_cylinder"],
     [line |-> 403, op |-> "make_hole", out |-> "base_cylinder",
      part |-> "base_cylinder", hole_diameter |-> Q8(120),
      hole_height |-> Q8(8000), hole_position |-> <<Q8(0), Q8(0), Q8(0)>>,
      hole_rotation |-> [form |-> "tuple", value |-> <<0, 0, 0>>],
      through_hole |-> TRUE],
     [line |-> 409, op |-> "create_centered_rectangle", out |-> "key_hole",
      length |-> Q8(41), width |-> Q8(41), height |-> Q8(8000),
      label |-> "Compound"],
     [line |-> 412, op |-> "assign_placement", out |-> "",
      obj |-> "key_hole", position |-> <<Q8(0 - 74), Q8(0), Q8(0)>>,
      rotation |-> [form |-> "axis", angle |-> 0]],
     [line |-> 414, op |-> "cut", out |-> "base_cylinder",
      base |-> "base_cylinder", tool |-> "key_hole"],
     [line |-> 167, op |-> "create_sloped_wall",
      out |-> "joint_motor_holder", length |-> Q8(400), height |-> Q8(688),
      width |-> Q8(816), slope_angle |-> 70, offset_length |-> Q8(128),
      label |-> "Sloped Wall"],
     [line |-> 171, op |-> "create_centered_rectangle",
      out |-> "joint_motor_holder_cut", length |-> Q8(400),
      width |-> Q8(692), height |-> Q8(688), label |-> "Compound"],
     [line |-> 173, op |-> "assign_placement", out |-> "",
      obj |-> "joint_motor_holder_cut",
      position |-> <<Q8(64), Q8(0), Q8(0)>>,
      rotation |-> [form |-> "axis", angle |-> 0]],
     [line |-> 175, op |-> "cut", out |-> "joint_motor_holder",
      base |-> "joint_motor_holder", tool |-> "joint_motor_holder_cut"],
     [line |-> 177, op |-> "assign_placement", out |-> "",
      obj |-> "joint_motor_holder", position |-> <<Q8(0), Q8(400), Q8(464)>>,
      rotation |-> [form |-> "axis", angle |-> 90]],
     [line |-> 192, op |-> "make_hole", out |-> "joint_motor_holder",
      part |-> "joint_motor_holder", hole_diameter |-> Q8(54),
      hole_height |-> Q8(8000),
      hole_position |-> <<Q8(278), Q8(0), Q8(1086)>>,
      hole_rotation |-> [form |-> "list", value |-> <<<<0, 90, 0>>, <<90, 0, 0>>>>],
      through_hole |-> TRUE],
     [line |-> 192, op |-> "make_hole", out |-> "joint_motor_holder",
      part |-> "joint_motor_holder", hole_diameter |-> Q8(54),
      hole_height |-> Q8(8000),
      hole_position |-> <<Q8(0 - 278), Q8(0), Q8(1086)>>,
      hole_rotation |-> [form |-> "list", value |-> <<<<0, 90, 0>>, <<90, 0, 0>>>>],
      through_hole |-> TRUE],
     [line |-> 192, op |-> "make_hole", out |-> "joint_motor_holder",
      part |-> "joint_motor_holder", hole_diameter |-> Q8(54),
      hole_height |-> Q8(8000),
      hole_position |-> <<Q8(0 - 278), Q8(0), Q8(530)>>,
      hole_rotation |-> [form |-> "list", value |-> <<<<0, 90, 0>>, <<90, 0, 0>>>>],
      through_hole |-> TRUE],
     [line |-> 192, op |-> "make_hole", out |-> "joint_motor_holder",
      part |-> "joint_motor_holder", hole_diameter |-> Q8(54),
      hole_height |-> Q8(8000),
      hole_position |-> <<Q8(278), Q8(0), Q8(530)>>,
      hole_rotation |-> [form |-> "list", value |-> <<<<0, 90, 0>>, <<90, 0, 0>>>>],
      through_hole |-> TRUE],
     [line |-> 198, op |-> "make_hole", out |-> "joint_motor_holder",
      part |-> "joint_motor_holder", hole_diameter |-> Q8(448),
      hole_height |-> Q8(8000), hole_position |-> <<Q8(0), Q8(0), Q8(808)>>,
      hole_rotation |-> [form |-> "list", value |-> <<<<0, 90, 0>>, <<90, 0, 0>>>>],
      through_hole |-> TRUE],
     [line |-> 203, op |-> "assign_placement", out |-> "",
      obj |-> "joint_motor_holder",
      position |-> <<Q8(0), Q8(0 - 360), Q8(0)>>,
      rotation |-> [form |-> "axis", angle |-> 0]],
     [line |-> 211, op |-> "create_centered_rectangle", out |-> "side_bar",
      length |-> Q8(120), width |-> Q8(320), height |-> Q8(40),
      label |-> "Compound"],
     [line |-> 217, op |-> "make_hole", out |-> "side_bar",
      part |-> "side_bar", hole_diameter |-> Q8(56),
      hole_height |-> Q8(8000),
      hole_position |-> <<Q8(0), Q8(0 - 120), Q8(0)>>,
      hole_rotation |-> [form |-> "tuple", value |-> <<0, 0, 0>>],
      through_hole |-> TRUE],
     [line |-> 221, op |-> "make_hole", out |-> "base_cylinder",
      part |-> "base_cylinder", hole_diameter |-> Q8(56),
      hole_height |-> Q8(8000),
      hole_position |-> <<Q8(0 - 468), Q8(0 - 120), Q8(464)>>,
      hole_rotation |-> [form |-> "tuple", value |-> <<0, 0, 0>>],
      through_hole |-> TRUE],
     [line |-> 217, op |-> "make_hole", out |-> "side_bar",
      part |-> "side_bar", hole_diameter |-> Q8(56),
      hole_height |-> Q8(8000), hole_position |-> <<Q8(0), Q8(120), Q8(0)>>,
      hole_rotation |-> [form |-> "tuple", value |-> <<0, 0, 0>>],
      through_hole |-> TRUE],
     [line |-> 221, op |-> "make_hole", out |-> "base_cylinder",
      part |-> "base_cylinder", hole_diameter |-> Q8(56),
      hole_height |-> Q8(8000),
      hole_position |-> <<Q8(0 - 468), Q8(120), Q8(464)>>,
      hole_rotation |-> [form |-> "tuple", value |-> <<0, 0, 0>>],
      through_hole |-> TRUE],
     [line |-> 225, op |-> "assign_placement", out |-> "",
      obj |-> "side_bar", position |-> <<Q8(0 - 468), Q8(0), Q8(464)>>,
      rotation |-> [form |-> "axis", angle |-> 0]],
     [line |-> 229, op |-> "join_parts", out |-> "joint_motor_holder",
      part1 |-> "joint_motor_holder", part2 |-> "side_bar"],
     [line |-> 211, op |-> "create_centered_rectangle", out |-> "side_bar",
      length |-> Q8(120), width |-> Q8(320), height |-> Q8(40),
      label |-> "Compound"],
     [line |-> 217, op |-> "make_hole", out |-> "side_bar",
      part |-> "side_bar", hole_diameter |-> Q8(56),
      hole_height |-> Q8(8000),
      hole_position |-> <<Q8(0), Q8(0 - 120), Q8(0)>>,
      hole_rotation |-> [form |-> "tuple", value |-> <<0, 0, 0>>],
      through_hole |-> TRUE],
     [line |-> 221, op |-> "make_hole", out |-> "base_cylinder",
      part |-> "base_cylinder", hole_diameter |-> Q8(56),
      hole_height |-> Q8(8000),
      hole_position |-> <<Q8(468), Q8(0 - 120), Q8(464)>>,
      hole_rotation |-> [form |-> "tuple", value |-> <<0, 0, 0>>],
      through_hole |-> TRUE],
     [line |-> 217, op |-> "make_hole", out |-> "side_bar",
      part |-> "side_bar", hole_diameter |-> Q8(56),
      hole_height |-> Q8(8000), hole_position |-> <<Q8(0), Q8(120), Q8(0)>>,
      hole_rotation |-> [form |-> "tuple", value |-> <<0, 0, 0>>],
      through_hole |-> TRUE],
     [line |-> 221, op |-> "make_hole", out |-> "base_cylinder",
      part |-> "base_cylinder", hole_diameter |-> Q8(56),
      hole_height |-> Q8(8000),
      hole_position |-> <<Q8(468), Q8(120), Q8(464)>>,
      hole_rotation |-> [form |-> "tuple", value |-> <<0, 0, 0>>],
      through_hole |-> TRUE],
     [line |-> 225, op |-> "assign_placement", out |-> "",
      obj |-> "side_bar", position |-> <<Q8(468), Q8(0), Q8(464)>>,
      rotation |-> [form |-> "axis", angle |-> 0]],
     [line |-> 229, op |-> "join_parts", out |-> "joint_motor_holder",
      part1 |-> "joint_motor_holder", part2 |-> "side_bar"],
     [line |-> 238, op |-> "create_centered_rectangle",
      out |-> "endstop_rectangle", length |-> Q8(64), width |-> Q8(800),
      height |-> Q8(320), label |-> "Compound"],
     [line |-> 244, op |-> "assign_placement", out |-> "",
      obj |-> "endstop_rectangle",
      position |-> <<Q8(0 - 376), Q8(0 - 560), Q8(464)>>,
      rotation |-> [form |-> "axis", angle |-> 0]],
     [line |-> 250, op |-> "create_cylinder", out |-> "endstop_rounded",
      height |-> Q8(800), radius |-> Q8(32),
      position |-> <<Q8(0), Q8(0), Q8(0)>>],
     [line |-> 252, op |-> "assign_placement", out |-> "",
      obj |-> "endstop_rounded",
      position |-> <<Q8(0 - 376), Q8(0 - 960), Q8(784)>>,
      rotation |-> [form |-> "list", value |-> <<<<0, 90, 0>>, <<90, 0, 0>>>>]],
     [line |-> 254, op |-> "join_parts", out |-> "endstop_rectangle",
      part1 |-> "endstop_rectangle", part2 |-> "endstop_rounded"],
     [line |-> 267, op |-> "make_hole", out |-> "endstop_rectangle",
      part |-> "endstop_rectangle", hole_diameter |-> Q8(56),
      hole_height |-> Q8(8000),
      hole_position |-> <<Q8(0), Q8(0 - 481), Q8(716)>>,
      hole_rotation |-> [form |-> "list", value |-> <<<<0, 90, 0>>, <<0, 0, 0>>>>],
      through_hole |-> TRUE],
     [line |-> 267, op |-> "make_hole", out |-> "endstop_rectangle",
      part |-> "endstop_rectangle", hole_diameter |-> Q8(56),
      hole_height |-> Q8(8000),
      hole_position |-> <<Q8(0), Q8(0 - 321), Q8(716)>>,
      hole_rotation |-> [form |-> "list", value |-> <<<<0, 90, 0>>, <<0, 0, 0>>>>],
      through_hole |-> TRUE],
     [line |-> 274, op |-> "create_sloped_wall", out |-> "endstop_slope",
      length |-> Q8(800), height |-> Q8(184), width |-> Q8(800),
      slope_angle |-> 30, offset_length |-> Q8(0), label |-> "Endstop Slope"],
     [line |-> 276, op |-> "assign_placement", out |-> "",
      obj |-> "endstop_slope",
      position |-> <<Q8(0 - 808), Q8(0 - 560), Q8(464)>>,
      rotation |-> [form |-> "axis", angle |-> 180]],
     [line |-> 278, op |-> "join_parts", out |-> "endstop_rectangle",
      part1 |-> "endstop_rectangle", part2 |-> "endstop_slope"],
     [line |-> 283, op |-> "create_hollow_cylinder", out |-> "_arg",
      outer_radius |-> Q8(1600), inner_radius |-> Q8(760),
      height |-> Q8(8000), position |-> <<Q8(0), Q8(0), Q8(0)>>],
     [line |-> 283, op |-> "cut", out |-> "endstop_rectangle",
      base |-> "endstop_rectangle", tool |-> "_arg"],
     [line |-> 292, op |-> "make_hole", out |-> "endstop_rectangle",
      part |-> "endstop_rectangle", hole_diameter |-> Q8(136),
      hole_height |-> Q8(8000),
      hole_position |-> <<Q8(0 - 567), Q8(0 - 397), Q8(504)>>,
      hole_rotation |-> [form |-> "tuple", value |-> <<0, 0, 0>>],
      through_hole |-> FALSE],
     [line |-> 298, op |-> "join_parts", out |-> "joint_motor_holder",
      part1 |-> "joint_motor_holder", part2 |-> "endstop_rectangle"],
     [line |-> 302, op |-> "make_hole", out |-> "joint_motor_holder",
      part |-> "joint_motor_holder", hole_diameter |-> Q8(56),
      hole_height |-> Q8(8000),
      hole_position |-> <<Q8(0 - 567), Q8(0 - 397), Q8(504)>>,
      hole_rotation |-> [form |-> "tuple", value |-> <<0, 0, 0>>],
      through_hole |-> TRUE],
     [line |-> 304, op |-> "make_hole", out |-> "base_cylinder",
      part |-> "base_cylinder", hole_diameter |-> Q8(56),
      hole_height |-> Q8(8000),
      hole_position |-> <<Q8(0 - 567), Q8(0 - 397), Q8(464)>>,
      hole_rotation |-> [form |-> "tuple", value |-> <<0, 0, 0>>],
      through_hole |-> TRUE],
     [line |-> 306, op |-> "assign_label", out |-> "",
      obj |-> "base_cylinder", text |-> "Base For First Joint"],
     [line |-> 308, op |-> "assign_label", out |-> "",
      obj |-> "joint_motor_holder", text |-> "Motor Holder For First Joint"]
    >>

\* The body of the loop of src/unnamed/part_000's main for the bearing i:
\* angle_deg = (360/number_of_bearings) * i, a multiple of 45 degrees, and
\* bearings_distance = 80 - (7 + 10); the values are exact.
part_000_bearing(i) ==
    <<
     [line |-> 164, op |-> "create_centered_rectangle", out |-> "rectangle",
      def |-> "part_000",
      length |-> I(10), width |-> I(10), height |-> I(20),
      label |-> <<"Rectangle_0", "Rectangle_1", "Rectangle_2", "Rectangle_3",
                  "Rectangle_4", "Rectangle_5", "Rectangle_6",
                  "Rectangle_7">>[i + 1]],
     [line |-> 168, op |-> "assign_placement", out |-> "",
      obj |-> "rectangle",
      position |-> <<Mul(I(63), cos(45 * i)), Mul(I(63), sin(45 * i)), I(8)>>,
      rotation |-> [form |-> "axis", angle |-> 45 * i]],
     [line |-> 172, op |-> "join_parts", out |-> "base_cylinder",
      part1 |-> "base_cylinder", part2 |-> "rectangle"],
     [line |-> 178, op |-> "make_hole", out |-> "base_cylinder",
      part |-> "base_cylinder", hole_diameter |-> I(8),
      hole_height |-> I(1000), hole_position |-> <<I(0), I(0), I(18)>>,
      hole_rotation |-> [form |-> "list",
                         value |-> <<<<0, 90, 0>>, <<45 * i, 0, 0>>>>],
      through_hole |-> FALSE]
    >>

\* main of src/unnamed/part_000; cut_cylinder is cut under another name.
part_000_main ==
    <<
     [line |-> 122, op |-> "create_cylinder", out |-> "base_cylinder",
      height |-> I(32), radius |-> I(100),
      position |-> <<I(0), I(0), I(0)>>],
     [line |-> 127, op |-> "create_cylinder", out |-> "cut_cylinder_obj",
      height |-> I(16), radius |-> I(80),
      position |-> <<I(0), I(0), I(8)>>],
     [line |-> 131, op |-> "cut", out |-> "base_cylinder",
      base |-> "base_cylinder", tool |-> "cut_cylinder_obj"],
     [line |-> 136, op |-> "create_cylinder", out |-> "second_cylinder",
      height |-> I(8), radius |-> I(90),
      position |-> <<I(0), I(0), I(24)>>],
     [line |-> 141, op |-> "cut", out |-> "base_cylinder",
      base |-> "base_cylinder", tool |-> "second_cylinder"]
    >> \o part_000_bearing(0) \o part_000_bearing(1) \o part_000_bearing(2)
       \o part_000_bearing(3) \o part_000_bearing(4) \o part_000_bearing(5)
       \o part_000_bearing(6) \o part_000_bearing(7)

Recipes ==
    [part_000 |-> part_000_main,
     motor_hole_test |-> motor_hole_test_main,
     holder_in_reduction |-> holder_in_reduction_main,
     first_joint_v2 |-> first_joint_v2_main]

\* "obj.Placement = App.Placement(App.Vector(x, y, z), rotation)" with the
\* rotation about Z by an angle, or compound_rotation of a list
rotation_of(rotation) ==
    IF rotation.form = "axis" THEN AxisRotation("Z", rotation.angle)
    ELSE compound_rotation(rotation.value)

assign_placement_rotation(d, obj, position, rotation) ==
    Return([d EXCEPT ![obj].Placement = Placement(position, rotation_of(rotation))],
           0)

\* "obj.Placement.Base = obj.Placement.Base + App.Vector(x, y, z)"
shift_base(d, obj, delta) ==
    Return([d EXCEPT ![obj].Placement.Base = VAdd(@, delta)], 0)

\* "obj.Label = text": the document keeps labels apart as it does names
assign_label(d, obj, text) ==
    Return([d EXCEPT ![obj].Label =
                [base |-> text,
                 n |-> Cardinality({i \in 1..Len(d) : d[i].Label.base = text})]],
           0)

\* "obj.Name" written as the name of the first rectangle but one
object_name_fixed(d, obj) == [base |-> "Compound", n |-> 1]

\* "obj.Name", as the recipes pass it to rotate_object_around_center
object_name(d, obj) == d[obj].Name

\* The statements whose outcome the host kernel decides.
HostStatements ==
    {"create_centered_rectangle", "create_sloped_wall",
     "create_hollow_cylinder", "cut", "make_hole", "join_parts"}

\* One statement st of a recipe, on the document d with the variables env.
\* The definition of create_centered_rectangle a statement calls: that of
\* its own script, which is the one of useful_functions.py in every script
\* but src/unnamed/part_000 and create_base_v1.py.
RectangleDefOf(st) ==
    IF "def" \in DOMAIN st THEN st.def ELSE "useful_functions"

Statement(st, d, env, host) ==
    CASE st.op = "create_cylinder" ->
           create_cylinder(d, st.height, st.radius, st.position)
      [] st.op = "create_centered_rectangle" ->
           create_centered_rectangle(d, RectangleDefOf(st), st.length,
                                     st.width, st.height, st.label, host)
      [] st.op = "create_sloped_wall" ->
           create_sloped_wall(d, st.length, st.height, st.width,
                              st.slope_angle, st.offset_length, st.label, host)
      [] st.op = "create_hollow_cylinder" ->
           create_hollow_cylinder(d, st.outer_radius, st.inner_radius,
                                  st.height, st.position, host)
      [] st.op = "cut" -> cut(d, env[st.base], env[st.tool], host)
      [] st.op = "join_parts" -> join_parts(d, env[st.part1], env[st.part2], host)
      [] st.op = "make_hole" ->
           make_hole(d, env[st.part], st.hole_diameter, st.hole_height,
                     st.hole_position, st.hole_rotation, st.through_hole, host)
      [] st.op = "rotate_object_around_center" ->
           rotate_object_around_center(d, object_name(d, env[st.obj]),
                                       st.axis, st.angle)
      [] st.op = "assign_placement" ->
           assign_placement_rotation(d, env[st.obj], st.position, st.rotation)
      [] st.op = "shift_base" -> shift_base(d, env[st.obj], st.delta)
      [] st.op = "assign_label" -> assign_label(d, env[st.obj], st.text)

\* The variables after the statement st with outcome r.
Bind(env, st, r) ==
    IF st.out # "" /\ r.err = "none" THEN (st.out :> r.ret) @@ env ELSE env

\* The variables a statement reads objects from, in the order it is given
\* them.
ObjectArgs(st) ==
    CASE st.op = "cut" -> <<st.base, st.tool>>
      [] st.op = "join_parts" -> <<st.part1, st.part2>>
      [] st.op = "make_hole" -> <<st.part>>
      [] st.op \in {"rotate_object_around_center", "assign_placement",
                    "shift_base", "assign_label"} -> <<st.obj>>
      [] OTHER -> <<>>

\* What a statement is given: its numbers and texts (values), the objects,
\* each as the number of objects the run had added when it added that one
\* (negative or zero for an object the run found), the name passed to
\* rotate_object_around_center (names) and the object of that name (named).
CallArgs(st, d, env, start) ==
    [values |-> st,
     objects |-> [k \in 1..Len(ObjectArgs(st)) |->
                     env[ObjectArgs(st)[k]] - Len(start)],
     names |-> IF st.op = "rotate_object_around_center"
               THEN <<object_name(d, env[st.obj])>> ELSE <<>>,
     named |-> IF st.op = "rotate_object_around_center"
               THEN <<getObject(d, object_name(d, env[st.obj])) - Len(start)>>
               ELSE <<>>]

\* "if App.ActiveDocument is None: App.newDocument()" every time
document_always_new(d, active) == <<>>

\* "if App.ActiveDocument is None: App.newDocument()": the document main
\* works on, d being the active document if there is one
document_at_start(d, active) == IF active THEN d ELSE <<>>

NoVariables == [v \in {} |-> 0]

\* the top of a script without the check for an active document
active_unchecked(active) == active

\* "if App.ActiveDocument is None: App.newDocument()": whether there is an
\* active document afterwards
active_after_check(active) == IF ~ active THEN TRUE ELSE active

\* The documents a session may have open when the script is started: none,
\* an empty one, and one that holds a cylinder and a rectangle.
InitRecipe ==
    \E recipe \in DOMAIN Recipes, session \in {"none", "empty", "used"} :
        /\ doc = IF session = "used"
                 THEN CylinderAndRectangle(<<I(8), I(3), VecI(0, 0, 0)>>,
                                           <<I(2), I(1), VecI(20, 0, 0)>>)
                 ELSE <<>>
        /\ held = NoVariables
        /\ pc = "start"
        /\ err = "none"
        /\ ret = 0
        /\ calls = 0
        /\ last = [op |-> "none", args |-> <<>>, doc |-> <<>>,
                   recipe |-> recipe, run |-> 1, session |-> session,
                   active |-> session # "none",
                   first |-> <<>>, start |-> <<>>, left |-> <<>>,
                   ref |-> [doc |-> <<>>, env |-> NoVariables],
                   ref_args |-> <<>>]

\* The top of the script, up to the call of main.  last keeps the document
\* the first run started on (first), the one this run started on (start)
\* and the one the run before it left (left).
Start ==
    /\ pc = "start"
    /\ doc' = document_at_start(doc, last.active)
    /\ pc' = "run"
    /\ last' = [last EXCEPT !.op = "start", !.doc = doc,
                            !.active = active_after_check(last.active),
                            !.first = doc', !.start = doc']
    /\ UNCHANGED <<held, err, ret, calls>>

\* The statement st = the next one of main, with outcome r (a helper called
\* with no active document fails on App.ActiveDocument.addObject); s is the same
\* statement in the run of the recipe that started on an empty document and
\* met no failure, which last.ref follows.
Perform(st, r, s) ==
    /\ doc' = r.doc
    /\ ret' = r.ret
    /\ err' = r.err
    /\ held' = Bind(held, st, r)
    /\ calls' = calls + 1
    /\ pc' = IF r.err = "none" THEN "run" ELSE "error"
    /\ last' = [last EXCEPT
                  !.op = st.op,
                  !.args = CallArgs(st, doc, held, last.start),
                  !.doc = doc,
                  !.ref = [doc |-> s.doc, env |-> Bind(last.ref.env, st, s)],
                  !.ref_args = CallArgs(st, last.ref.doc, last.ref.env, <<>>)]

PerformStatement ==
    /\ pc = "run"
    /\ calls < Len(Recipes[last.recipe])
    /\ Recipes[last.recipe][calls + 1].op # "return"
    /\ \E st \in {Recipes[last.recipe][calls + 1]} :
         \E host \in IF st.op \in HostStatements THEN Host ELSE {"ok"} :
           \E r \in {IF last.active THEN Statement(st, doc, held, host)
                     ELSE Raise(doc, "AttributeError")},
              s \in {Statement(st, last.ref.doc, last.ref.env, "ok")} :
             Perform(st, r, s)

\* "return" in main: the statements after it are not performed
ReturnFromMain ==
    /\ pc = "run"
    /\ calls < Len(Recipes[last.recipe])
    /\ Recipes[last.recipe][calls + 1].op = "return"
    /\ pc' = "done"
    /\ last' = [last EXCEPT !.op = "return", !.args = <<>>, !.doc = doc,
                            !.ref_args = <<>>]
    /\ UNCHANGED <<doc, held, err, ret, calls>>

\* main never gets past its last statement
EndOfMainBlocked ==
    /\ pc = "run"
    /\ calls = Len(Recipes[last.recipe])
    /\ UNCHANGED vars

\* main has performed its last statement
EndOfMain ==
    /\ pc = "run"
    /\ calls = Len(Recipes[last.recipe])
    /\ pc' = "done"
    /\ last' = [last EXCEPT !.op = "end", !.args = <<>>, !.doc = doc,
                            !.ref_args = <<>>]
    /\ UNCHANGED <<doc, held, err, ret, calls>>

\* The script is run again in the same session.
RunAgain ==
    /\ pc = "done"
    /\ last.run = 1
    /\ doc' = document_at_start(doc, last.active)
    /\ held' = NoVariables
    /\ calls' = 0
    /\ pc' = "run"
    /\ last' = [last EXCEPT !.op = "start", !.args = <<>>, !.doc = doc,
                            !.run = 2, !.start = doc', !.left = doc,
                            !.ref = [doc |-> <<>>, env |-> NoVariables],
                            !.ref_args = <<>>]
    /\ UNCHANGED <<err, ret>>

NextRecipe ==
    \/ Start
    \/ PerformStatement
    \/ ReturnFromMain
    \/ EndOfMain
    \/ RunAgain

SpecRecipe == InitRecipe /\ [][NextRecipe]_vars

\* The statement main is at ends: it returns or raises.  This is
\* PerformStatement as far as pc and calls tell.
StatementEnds ==
    /\ pc = "run"
    /\ calls < Len(Recipes[last.recipe])
    /\ Recipes[last.recipe][calls + 1].op # "return"
    /\ pc' \in {"run", "error"}
    /\ calls' = calls + 1

\* The interpreter goes on to the next statement of a script it has been
\* told to run, and every call into the host returns or raises.  Whether
\* the script is run a second time is the user's choice.
SpecRecipeFair ==
    /\ SpecRecipe
    /\ WF_vars(Start)
    /\ WF_<<pc, calls>>(StatementEnds)
    /\ WF_vars(ReturnFromMain)
    /\ WF_vars(EndOfMain)

(***************************************************************************)
(* The claims.                                                             *)
(***************************************************************************)
\* The unit vectors: two rotations that agree on them agree on every vector.
UnitVectors == {VecI(1, 0, 0), VecI(0, 1, 0), VecI(0, 0, 1)}

\* The vector v after the rotations of list, one after the other, the
\* first-listed first.
RECURSIVE apply_in_order(_, _)
apply_in_order(list, v) ==
    IF list = <<>> THEN v
    ELSE apply_in_order(Tail(list), multVec(create_rotation(Head(list)), v))

RotList == last.args.rotation_in_degrees_list_of_tuples

\* C1: the rotation compound_rotation returns for the list [r1, ..., rn]
\* takes every vector to where applying r1 first, then r2, ..., then rn
\* takes it.
C1_FirstListedActsFirst ==
    pc = "returned" =>
        \A v \in UnitVectors : multVec(ret, v) = apply_in_order(RotList, v)

\* C1 witness: compound_rotation has returned for a list of two rotations
\* that do not commute.
C1_Witness ==
    /\ pc = "returned"
    /\ RotList = <<<<0, 90, 0>>, <<90, 0, 0>>>>
    /\ multiply(create_rotation(RotList[1]), create_rotation(RotList[2]))
           # multiply(create_rotation(RotList[2]), create_rotation(RotList[1]))

\* C2, as the specification states it: for [(0,90,0), (angle,0,0)] the
\* result takes a vector to where the X-axis rotation by angle first and
\* the Y-axis rotation by 90 degrees second take it.
C2_AsStated ==
    (pc = "returned" /\ Len(RotList) = 2 /\ RotList[1] = <<0, 90, 0>>
        /\ RotList[2][2] = 0 /\ RotList[2][3] = 0) =>
        \A v \in UnitVectors :
            multVec(ret, v) =
                multVec(AxisRotation("Y", 90),
                        multVec(AxisRotation("X", RotList[2][1]), v))

\* C2, amended: for [(0,90,0), (angle,0,0)] the first-listed rotation is
\* applied first, and the triple (angle,0,0) is a rotation about Z: the
\* result takes a vector to where the Y-axis rotation by 90 degrees first
\* and the Z-axis rotation by angle second take it.
C2_PitchThenYaw ==
    (pc = "returned" /\ Len(RotList) = 2 /\ RotList[1] = <<0, 90, 0>>
        /\ RotList[2][2] = 0 /\ RotList[2][3] = 0) =>
        \A v \in UnitVectors :
            multVec(ret, v) =
                multVec(AxisRotation("Z", RotList[2][1]),
                        multVec(AxisRotation("Y", 90), v))

\* C2 witness: compound_rotation has returned for [(0,90,0), (45,0,0)],
\* and the order the specification states gives another rotation.
C2_Witness ==
    /\ pc = "returned"
    /\ RotList = <<<<0, 90, 0>>, <<45, 0, 0>>>>
    /\ ret # multiply(AxisRotation("Y", 90), AxisRotation("X", 45))

\* The objects of the document d are still in the document e, in their
\* places and with their properties (whether their shape has been computed
\* aside).
Retained(d, e) ==
    /\ Len(e) >= Len(d)
    /\ \A i \in 1..Len(d) : [e[i] EXCEPT !.Computed = d[i].Computed] = d[i]

\* The object the last statement added first, and the rotation make_hole
\* was asked for.
FirstAdded == doc[Len(last.doc) + 1]
AskedRotation == hole_rotation_of(last.args.hole_rotation)

\* C3: after make_hole with through_hole=True the tool's placement has the
\* rotation R asked for and the origin hole_position - R.(0,0,h/2).
C3_ToolOriginShiftedAlongOwnAxis ==
    (last.op = "make_hole" /\ last.args.through_hole) =>
        /\ FirstAdded.Placement.Rotation = AskedRotation
        /\ FirstAdded.Placement.Base =
               VSub(last.args.hole_position,
                    multVec(AskedRotation,
                            Vector(Zero, Zero, Half(last.args.hole_height))))

\* C3 witness: a through hole with a composed rotation, whose tool is not
\* where a shift along the world Z axis would have put it.
C3_Witness ==
    /\ last.op = "make_hole" /\ last.args.through_hole
    /\ last.args.hole_rotation.form = "list"
    /\ last.args.hole_position = VecI(1, 0, 2)
    /\ FirstAdded.Placement.Base #
           VSub(last.args.hole_position,
                Vector(Zero, Zero, Half(last.args.hole_height)))

\* C4, as the specification states it: whichever definition of
\* create_centered_rectangle is called, the box is placed at
\* (-length/2, -width/2, 0) and so spans [-L/2, L/2] x [-W/2, W/2] x [0, H].
C4_EveryDefinitionCenters ==
    last.op = "create_centered_rectangle" =>
        /\ FirstAdded.Placement.Base =
               Vector(Neg(Half(last.args.length)), Neg(Half(last.args.width)), Zero)
        /\ BoundBox(doc, Len(last.doc) + 1, Placement(VecI(0, 0, 0), Identity)) =
               [lo |-> Vector(Neg(Half(last.args.length)),
                              Neg(Half(last.args.width)), Zero),
                hi |-> Vector(Half(last.args.length), Half(last.args.width),
                              last.args.height)]

\* Points of the axis of the hole make_hole was asked for: the point at
\* distance t from hole_position, for the whole t from -6 to 6 and for
\* the half of the hole height on either side.
AxisSamples ==
    {I(n) : n \in (0 - 6)..6}
        \cup {Half(last.args.hole_height), Neg(Half(last.args.hole_height))}
HoleAxisPoint(R, t) ==
    VAdd(last.args.hole_position, multVec(R, Vector(Zero, Zero, t)))
\* The points of AxisSamples, each with its distance from hole_position.
HoleAxisPoints ==
    {[t |-> t, p |-> HoleAxisPoint(R, t)] : R \in {AskedRotation}, t \in AxisSamples}
WithinHalfHeight(t) ==
    /\ Leq(Neg(Half(last.args.hole_height)), t)
    /\ Leq(t, Half(last.args.hole_height))
ThroughHoleCut ==
    last.op = "make_hole" /\ last.args.through_hole /\ err = "none"

\* C5, as the specification states it: after make_hole with
\* through_hole=True the cut has no material anywhere on the hole axis.
C5_NoMaterialOnAxis ==
    ThroughHoleCut =>
        \A x \in HoleAxisPoints : ~ Inside(doc, Len(doc), x.p)

\* C5, amended: after make_hole with through_hole=True the cut has no
\* material on the hole axis within half the hole height of hole_position,
\* on either side, and has the target's material on the axis beyond that.
C5_NoMaterialWithinHalfHeight ==
    ThroughHoleCut =>
        \A x \in HoleAxisPoints :
            Inside(doc, Len(doc), x.p) <=>
                (Inside(doc, last.args.part, x.p) /\ ~ WithinHalfHeight(x.t))

\* C5 witness: a through hole that removed material of the target behind
\* hole_position and left material of the target on its axis further on.
C5_Witness ==
    /\ ThroughHoleCut
    /\ \E x \in HoleAxisPoints :
           /\ Lt(x.t, Zero)
           /\ Inside(doc, last.args.part, x.p)
           /\ ~ Inside(doc, Len(doc), x.p)
    /\ \E x \in HoleAxisPoints : Inside(doc, Len(doc), x.p)

\* C6: make_hole adds two objects, a cylinder with Radius = d/2 and
\* Height = h and then a Cut with Base = part and Tool = that cylinder; it
\* raises only when the host's recompute does, and otherwise returns the Cut.
C6_MakeHoleAddsToolAndCut ==
    last.op = "make_hole" =>
        /\ Len(doc) = Len(last.doc) + 2
        /\ FirstAdded.TypeId = "Part::Cylinder"
        /\ FirstAdded.Radius = Half(last.args.hole_diameter)
        /\ FirstAdded.Height = last.args.hole_height
        /\ doc[Len(doc)].TypeId = "Part::Cut"
        /\ doc[Len(doc)].Base = last.args.part
        /\ doc[Len(doc)].Tool = Len(last.doc) + 1
        /\ err \in {"none", "RecomputeError"}
        /\ (err = "none") <=> (last.args.host = "ok")
        /\ err = "none" => ret = Len(doc)

\* C6 witness: make_hole has returned the Cut of a hole of diameter 0,
\* which no check refused.
C6_Witness ==
    /\ last.op = "make_hole" /\ err = "none"
    /\ last.args.hole_diameter = Zero
    /\ ret = Len(doc) /\ doc[ret].Tool = Len(doc) - 1

\* C7: create_hollow_cylinder raises ValueError exactly when inner_radius
\* is not smaller than outer_radius, and the document is then as it was.
C7_RejectsInnerNotSmaller ==
    last.op = "create_hollow_cylinder" =>
        /\ (err = "ValueError") <=>
               ~ Lt(last.args.inner_radius, last.args.outer_radius)
        /\ err = "ValueError" => doc = last.doc

\* C7 witness: create_hollow_cylinder has raised for equal radii on a
\* document that held objects.
C7_Witness ==
    /\ last.op = "create_hollow_cylinder" /\ err = "ValueError"
    /\ last.args.inner_radius = last.args.outer_radius
    /\ last.doc # <<>>

\* C8: rotate_object_around_center raises ValueError when the document
\* has no object of the given name, and no placement is then changed.
C8_MissingObjectRaises ==
    (/\ last.op = "rotate_object_around_center"
     /\ \A i \in 1..Len(last.doc) : last.doc[i].Name # last.args.object_name) =>
        /\ err = "ValueError"
        /\ Len(doc) = Len(last.doc)
        /\ \A i \in 1..Len(doc) : doc[i].Placement = last.doc[i].Placement

\* C8 witness: the lookup has failed on a document that held objects.
C8_Witness ==
    /\ last.op = "rotate_object_around_center" /\ err = "ValueError"
    /\ last.doc # <<>>

\* C9: a statement is performed only while no statement has failed, and
\* a failing statement ends the script and keeps the document's objects
\* as they were.
C9_FailureStopsScript ==
    [][/\ pc = "run"
       /\ err' # "none" => (pc' = "error" /\ Retained(doc, doc'))]_vars

\* C9 witness: the script has ended at a failing statement that had
\* objects before it and had added its own.
C9_Witness ==
    /\ pc = "error" /\ err # "none"
    /\ last.doc # <<>>
    /\ Len(doc) > Len(last.doc)

FailedBoolean ==
    last.op \in {"make_hole", "cut", "join_parts"} /\ err = "RecomputeError"

\* C10, as the specification states it: when the recompute of make_hole,
\* cut or join_parts fails, the document holds exactly the objects it held
\* before the call.
C10_NothingLeftBehind ==
    FailedBoolean => (Len(doc) = Len(last.doc) /\ Retained(last.doc, doc))

\* C10, amended: when the recompute of make_hole, cut or join_parts fails,
\* the document holds the objects it held before the call and, after them,
\* the objects the call added before the recompute: the tool cylinder and
\* the Cut of make_hole, the Cut of cut, the Fuse of join_parts.
C10_AddedObjectsStay ==
    FailedBoolean =>
        /\ Retained(last.doc, doc)
        /\ Len(doc) = Len(last.doc) + (IF last.op = "make_hole" THEN 2 ELSE 1)
        /\ doc[Len(doc)].TypeId =
               (IF last.op = "join_parts" THEN "Part::Fuse" ELSE "Part::Cut")
        /\ ~ doc[Len(doc)].Computed
        /\ last.op = "make_hole" =>
               (/\ FirstAdded.TypeId = "Part::Cylinder"
                /\ doc[Len(doc)].Tool = Len(last.doc) + 1)

\* C10 witness: the recompute of make_hole has failed on a document that
\* held objects, and the tool and the Cut are in the document.
C10_Witness ==
    /\ FailedBoolean /\ last.op = "make_hole"
    /\ last.doc # <<>>
    /\ Len(doc) = Len(last.doc) + 2

BooleanHelpers == {"cut", "make_hole", "join_parts"}

\* C19: cut, make_hole and join_parts remove no object and change no
\* property of an object that was there, their inputs included: after the
\* call the document holds every object it held before, as it was, and at
\* least one more.
C19_BooleansOnlyAdd ==
    last.op \in BooleanHelpers =>
        /\ Len(doc) > Len(last.doc)
        /\ Retained(last.doc, doc)
        /\ \A i \in 1..Len(last.doc) :
               /\ doc[i].Name = last.doc[i].Name
               /\ doc[i].Placement = last.doc[i].Placement
               /\ doc[i].Base = last.doc[i].Base
               /\ doc[i].Tool = last.doc[i].Tool

\* C19 witness: a boolean helper has returned for inputs that are
\* themselves results of earlier calls and stand at different places.
C19_Witness ==
    /\ last.op = "make_hole" /\ err = "none"
    /\ last.doc # <<>>
    /\ doc[Len(doc)].Base = last.args.part
    /\ doc[doc[Len(doc)].Tool].Placement # doc[doc[Len(doc)].Base].Placement

\* Points of space the solids of SpecPair are compared at.
GridPoints ==
    {VecI(x, y, z) : x \in {0 - 3, 0 - 1, 0, 1, 2, 3, 4, 20},
                     y \in {0 - 2, 0, 1},
                     z \in {0 - 1, 0, 1, 3, 7, 9}}

\* The document join_parts leaves when called with the parts exchanged.
JoinedOtherWay ==
    join_parts(last.doc, last.args.part2, last.args.part1, last.args.host).doc

\* C17: join_parts adds exactly one object, a Fuse with Base = part1 and
\* Tool = part2, and returns it (it raises only when the host's recompute
\* does); the solid is the union of the two parts, the same one that
\* join_parts(part2, part1) makes.
C17_JoinPartsFusesBoth ==
    last.op = "join_parts" =>
        /\ Len(doc) = Len(last.doc) + 1
        /\ Retained(last.doc, doc)
        /\ doc[Len(doc)].TypeId = "Part::Fuse"
        /\ doc[Len(doc)].Base = last.args.part1
        /\ doc[Len(doc)].Tool = last.args.part2
        /\ (err = "none") <=> (last.args.host = "ok")
        /\ err = "none" =>
               /\ ret = Len(doc)
               /\ \A p \in GridPoints :
                      /\ Inside(doc, ret, p) <=>
                             (\/ Inside(last.doc, last.args.part1, p)
                              \/ Inside(last.doc, last.args.part2, p))
                      /\ Inside(doc, ret, p) <=>
                             Inside(JoinedOtherWay, Len(JoinedOtherWay), p)

\* C17 witness: join_parts has returned the Fuse of two different parts,
\* each with material the other has not.
C17_Witness ==
    /\ last.op = "join_parts" /\ err = "none"
    /\ last.args.part1 # last.args.part2
    /\ doc[ret].Base = last.args.part1 /\ doc[ret].Tool = last.args.part2
    /\ \E p \in GridPoints :
           Inside(doc, last.args.part1, p) /\ ~ Inside(doc, last.args.part2, p)
    /\ \E p \in GridPoints :
           Inside(doc, last.args.part2, p) /\ ~ Inside(doc, last.args.part1, p)

\* The bounding box of object d[i] in the document's frame, and whether
\* two bounding boxes have no point in common.
BoxOf(d, i) == BoundBox(d, i, Placement(VecI(0, 0, 0), Identity))
Apart(A, B) ==
    \E k \in 1..3 : Lt(A.hi[k], B.lo[k]) \/ Lt(B.hi[k], A.lo[k])

\* The last statement was cut or reset_rotation and has added its Cut; the
\* tool of that Cut lies outside its target.
CutMade ==
    /\ last.op \in {"cut", "reset_rotation"}
    /\ Len(doc) > Len(last.doc)
    /\ doc[Len(doc)].TypeId = "Part::Cut"
ToolOutside ==
    /\ CutMade
    /\ Apart(BoxOf(doc, doc[Len(doc)].Tool), BoxOf(doc, doc[Len(doc)].Base))

ToolExtent(t) ==
    IF last.args.through_hole
    THEN WithinHalfHeight(t)
    ELSE Leq(Zero, t) /\ Leq(t, last.args.hole_height)

\* C20: the tool of make_hole has Height = hole_height whatever the flag;
\* along its rotated local Z from hole_position it covers [0, h] with
\* through_hole=False and [-h/2, +h/2] with through_hole=True.
C20_ToolAxialExtent ==
    last.op = "make_hole" =>
        /\ FirstAdded.Height = last.args.hole_height
        /\ \A x \in HoleAxisPoints :
               Inside(doc, Len(last.doc) + 1, x.p) <=> ToolExtent(x.t)

\* C20 witness: a through hole with a turned axis whose tool reaches half
\* its height forward of hole_position and no further.
C20_Witness ==
    /\ last.op = "make_hole" /\ last.args.through_hole
    /\ last.args.hole_rotation.form = "list"
    /\ last.args.hole_height = I(4)
    /\ Inside(doc, Len(last.doc) + 1, HoleAxisPoint(AskedRotation, I(2)))
    /\ ~ Inside(doc, Len(last.doc) + 1, HoleAxisPoint(AskedRotation, I(3)))

Factories ==
    {"create_cylinder", "create_centered_rectangle", "create_hollow_cylinder",
     "create_sloped_wall"}
\* The helpers whose last statement before the return is a recompute.
Recomputing ==
    {"create_centered_rectangle", "create_sloped_wall", "cut", "make_hole",
     "join_parts"}
\* A recompute that completes leaves every object of the document with
\* its shape computed.
AllComputed == \A i \in 1..Len(doc) : doc[i].Computed

\* C15, as the specification states it: each of create_cylinder,
\* create_centered_rectangle, create_hollow_cylinder, create_sloped_wall,
\* cut, make_hole and join_parts has recomputed the document when it
\* returns.
C15_EveryHelperRecomputes ==
    (last.op \in Factories \cup BooleanHelpers /\ err = "none") => AllComputed

\* C15, amended: create_centered_rectangle, create_sloped_wall, cut,
\* make_hole and join_parts recompute the document before they return (or
\* end with the recompute's error); create_cylinder and
\* create_hollow_cylinder return without a recompute, the document's
\* earlier objects as they were and the new cylinder not yet computed.
C15_RecomputeWhereCalled ==
    /\ last.op \in Recomputing =>
           \/ err = "none" /\ AllComputed
           \/ err = "RecomputeError"
    /\ (last.op \in {"create_cylinder", "create_hollow_cylinder"}
            /\ err = "none") =>
           /\ SubSeq(doc, 1, Len(last.doc)) = last.doc
           /\ Len(doc) = Len(last.doc) + 1
    /\ last.op = "create_cylinder" => ~ doc[Len(doc)].Computed

\* C15 witness: create_hollow_cylinder has returned and a cylinder made
\* before it still has no shape computed; a recomputing helper would have
\* left none such.
C15_Witness ==
    /\ last.op = "create_hollow_cylinder" /\ err = "none"
    /\ \E i \in 1..Len(last.doc) :
           doc[i].TypeId = "Part::Cylinder" /\ ~ doc[i].Computed

EightFeatures == pc = "returned" /\ last.args.number_of_holes = 8

\* C18: in the radial loop with 8 features and phase 360/8/2 the angle of
\* feature i is 22.5 + 45*i degrees, below 360 for every i in 0..7; the
\* eight angles are pairwise distinct and 45 degrees apart, the first 45
\* degrees past the last around the circle.
C18_EightAnglesEvenlySpaced ==
    (last.op = "radial_angle" /\ EightFeatures) =>
        /\ ret = Add(Num(45, 0, 1), I(45 * last.args.i))
        /\ Leq(Zero, ret) /\ Lt(ret, I(360))
        /\ \A j \in 0..7 : j # last.args.i => radial_angle(8, j) # ret
        /\ last.args.i < 7 => Sub(radial_angle(8, last.args.i + 1), ret) = I(45)
        /\ last.args.i = 7 => Sub(Add(radial_angle(8, 0), I(360)), ret) = I(45)

\* C18 witness: the angle of the last of eight features, 337.5 degrees.
C18_Witness ==
    /\ last.op = "radial_angle" /\ EightFeatures
    /\ last.args.i = 7
    /\ ret = Num(675, 0, 1)

\* The solid the boolean edits of a run produced last: the Cut or Fuse
\* added last.
FinalSolid(d) ==
    CHOOSE i \in 1..Len(d) :
        /\ d[i].TypeId \in {"Part::Cut", "Part::Fuse"}
        /\ \A j \in (i + 1)..Len(d) :
              d[j].TypeId \notin {"Part::Cut", "Part::Fuse"}
\* An object has the label addObject gave it (its name) until the script
\* assigns one.
ExplicitLabel(o) == o.Label # o.Name

\* C13: when a run of a recipe script is complete, the last solid its
\* boolean edits produced has been given an explicit label.
C13_FinalSolidLabelled ==
    pc = "done" => ExplicitLabel(doc[FinalSolid(doc)])

\* The objects a document has more than the one it grew from.
Added(d, e) == SubSeq(e, Len(d) + 1, Len(e))
Names(d) == {d[i].Name : i \in 1..Len(d)}

\* C11: a second run of a recipe on the document its first run left keeps
\* every object of that document as it was and adds as many objects again
\* as the first run added, of the same types in the same order, under names
\* of their own: the document is not the one the first run left.
C11_SecondRunAddsFullSet ==
    (pc = "done" /\ last.run = 2) =>
        /\ doc # last.left
        /\ Retained(last.left, doc)
        /\ Len(Added(last.left, doc)) = Len(Added(last.first, last.left))
        /\ \A k \in 1..Len(Added(last.left, doc)) :
              /\ Added(last.left, doc)[k].TypeId =
                     Added(last.first, last.left)[k].TypeId
              /\ Added(last.left, doc)[k].Name \notin Names(last.left)
        /\ Cardinality(Names(doc)) = Len(doc)

\* Both runs of create_first_joint_v2's main are complete: 71 objects each.
C11_Witness ==
    /\ pc = "done"
    /\ last.run = 2
    /\ last.recipe = "first_joint_v2"
    /\ last.first = <<>>
    /\ Len(last.left) = 71
    /\ Len(doc) = 142

\* The roots of the object graph: the objects no other object has as its
\* Base, its Tool or a member of its group.
Roots(d) ==
    {i \in 1..Len(d) :
        \A j \in 1..Len(d) :
            /\ d[j].Base # i
            /\ d[j].Tool # i
            /\ \A k \in 1..Len(d[j].Links) : d[j].Links[k] # i}
\* A complete first run on an empty document.
CompleteRunOnEmpty == pc = "done" /\ last.run = 1 /\ last.first = <<>>
\* The variables that hold a recipe's finished parts when main ends:
\* create_joint_motor_holder returns two, which main keeps apart.
FinishedParts ==
    [part_000 |-> {"base_cylinder"},
     motor_hole_test |-> {"test_cylinder"},
     holder_in_reduction |-> {"motor_side"},
     first_joint_v2 |-> {"joint_motor_holder", "base_cylinder"}]

\* C14 as stated: after a complete run of a recipe on an empty document
\* the object graph has exactly one root.
C14_SingleRoot == CompleteRunOnEmpty => Cardinality(Roots(doc)) = 1

\* C14 amended: after a complete run of a recipe on an empty document the
\* roots of the object graph are the recipe's finished parts and nothing
\* else: one for src/unnamed/part_000, motor_hole_test and
\* create_second_motor_holder_in_reduction, two (the base and the motor
\* holder) for create_first_joint_v2's main.
C14_RootsAreFinishedParts ==
    CompleteRunOnEmpty =>
        /\ Roots(doc) = {held[v] : v \in FinishedParts[last.recipe]}
        /\ Cardinality(Roots(doc)) =
              IF last.recipe = "first_joint_v2" THEN 2 ELSE 1

\* create_first_joint_v2's main is complete and has left two roots, each
\* with the label create_joint_motor_holder gave it.
C14_Witness ==
    /\ CompleteRunOnEmpty
    /\ last.recipe = "first_joint_v2"
    /\ Cardinality(Roots(doc)) = 2
    /\ {doc[i].Label.base : i \in Roots(doc)} =
          {"Base For First Joint", "Motor Holder For First Joint"}

\* The last step was a statement of main (not the start or the end of a
\* run).
StatementDone == last.op \notin {"none", "start", "return", "end"}
\* What a statement was given, a name taken without the number the
\* document added to it.
NumberFree(a) == [a EXCEPT !.names = [k \in DOMAIN @ |-> @[k].base]]

\* C12 as stated: the k-th statement of a run, and everything it is given,
\* is the k-th statement of the run of the same recipe that started on an
\* empty document, whatever the session held at start.
C12_SameCallsEveryRun == StatementDone => last.args = last.ref_args

\* C12 amended: the same, but for the name a recipe passes to
\* rotate_object_around_center: it names the same object of the run in
\* every run, and is the same text only up to the number the document gave
\* it, which follows the names taken at start (the same when the run
\* started on an empty document).
C12_SameCallsButNameNumbers ==
    StatementDone =>
        /\ NumberFree(last.args) = NumberFree(last.ref_args)
        /\ last.start = <<>> => last.args = last.ref_args

\* A second run has passed "Compound003" where the first passed
\* "Compound001", each the name of the second rectangle of its run.
C12_Witness ==
    /\ last.op = "rotate_object_around_center"
    /\ last.run = 2
    /\ last.first = <<>>
    /\ last.args.names = <<[base |-> "Compound", n |-> 3]>>
    /\ last.ref_args.names = <<[base |-> "Compound", n |-> 1]>>
    /\ last.args.named = <<4>>
    /\ last.args.objects = <<4>>

\* The object a call of rotate_object_around_center has turned, and the
\* centre of an object's bounding box in a document.
Rotated == getObject(last.doc, last.args.object_name)
BoxCenter(d, i) == Center(BoxOf(d, i))

\* C21: after rotate_object_around_center the centre of the object's
\* bounding box is where it was before the call, whatever placement the
\* object had.
C21_CentreStays ==
    (last.op = "rotate_object_around_center" /\ err = "none")
        => BoxCenter(doc, Rotated) = BoxCenter(last.doc, Rotated)

\* The two forms of make_hole's rotation argument.
AsTuple(t) == [form |-> "tuple", value |-> t]
AsList(l) == [form |-> "list", value |-> l]

\* C22: the rotation make_hole gives its tool is the same for a tuple t and
\* the list [t]; it is the identity (tool axis +Z) for the empty list and
\* for the default (0,0,0); and a list gives the same rotation with the
\* triple (0,0,0) appended to it.
C22_RotationFormsAgree ==
    pc = "returned" =>
        /\ ret = hole_rotation_of(AsList(RotList))
        /\ Len(RotList) = 1 => ret = hole_rotation_of(AsTuple(RotList[1]))
        /\ Len(RotList) = 0 =>
              /\ ret = hole_rotation_of(AsTuple(<<0, 0, 0>>))
              /\ \A v \in UnitVectors : multVec(ret, v) = v
        /\ hole_rotation_of(AsList(Append(RotList, <<0, 0, 0>>))) = ret

\* The list [(0,90,0)]: the tool axis is turned from +Z to +X.
C22_Witness ==
    /\ pc = "returned"
    /\ RotList = << <<0, 90, 0>> >>
    /\ multVec(ret, VecI(0, 0, 1)) = VecI(1, 0, 0)
    /\ hole_rotation_of(AsTuple(<<0, 90, 0>>)) = ret

\* The statements a complete run of each main performs, counted in the
\* source with the loops unrolled.
RunLength ==
    [part_000 |-> 37, motor_hole_test |-> 5, holder_in_reduction |-> 22,
     first_joint_v2 |-> 56]

\* C23: every run of a recipe terminates, and a run that reaches the end
\* of main has performed the fixed number of statements of that recipe,
\* whatever the document held.
C23_EveryRunTerminates ==
    /\ [](pc = "done" => calls = RunLength[last.recipe])
    /\ [](pc \in {"start", "run"} => <>(pc \in {"done", "error"}))

\* The second run of the longest main, on a document that held objects
\* before the first, has reached its end.
C23_Witness ==
    /\ pc = "done"
    /\ last.run = 2
    /\ last.recipe = "first_joint_v2"
    /\ last.first # <<>>
    /\ calls = 56

\* C24: a document is active before the first helper call of a run, the
\* script having created one when none was, and the helpers work on that
\* document: none of them creates another.
C24_DocumentBeforeHelpers ==
    /\ pc = "run" => last.active
    /\ StatementDone =>
          /\ last.active
          /\ err # "AttributeError"
          /\ Retained(last.start, doc)

\* The first helper call of a script started with no active document.
C24_Witness ==
    /\ last.session = "none"
    /\ last.run = 1
    /\ calls = 1
    /\ last.op = "create_cylinder"
    /\ last.doc = <<>>
    /\ Len(doc) = 1
    /\ last.active

\* The slot the loop is at, its angle, and |x|.
Slot == last.args.i
SlotAngle == radial_angle(4, Slot).a
Magnitude(x) == IF Sign(x) < 0 THEN Neg(x) ELSE x

\* C25: in the loop of four slots the x-offset is +8 for i in {0, 3} and -8
\* for i in {1, 2}; the angles are 45, 135, 225 and 315 degrees and the
\* offset has the sign of the cosine of the slot's angle, so the hole is
\* further from the Y axis than the point on the circle; and the mirror
\* image in x of every hole position is the position of another slot.
C25_OffsetAwayFromYAxis ==
    pc = "placed" =>
        /\ Slot \in {0, 3} => extra_offset_x(Slot) = 8
        /\ Slot \in {1, 2} => extra_offset_x(Slot) = 0 - 8
        /\ SlotAngle = 45 + 90 * Slot
        /\ Sign(I(extra_offset_x(Slot))) = Sign(cos(SlotAngle))
        /\ Magnitude(ret[1]) =
              Add(Magnitude(Mul(cos(SlotAngle), Num(61, 0, 1))), I(8))
        /\ \E j \in 0..3 :
              /\ j # Slot
              /\ slot_hole_position(radial_angle(4, j), j) =
                    Vector(Neg(ret[1]), ret[2], ret[3])

\* Slot 3, at 315 degrees: the hole is at x = 30.5 cos 45 + 8, y negative.
C25_Witness ==
    /\ pc = "placed"
    /\ Slot = 3
    /\ ret[1] = Add(Mul(Num(0, 1, 1), Num(61, 0, 1)), I(8))
    /\ Sign(ret[2]) = 0 - 1

\* compound_rotation was given [(0,90,0),(a,0,0)].
PitchThenAzimuth ==
    /\ pc = "returned"
    /\ Len(RotList) = 2
    /\ RotList[1] = <<0, 90, 0>>
    /\ RotList[2][2] = 0 /\ RotList[2][3] = 0
Azimuth == RotList[2][1]

\* C26: for hole_rotation = [(0,90,0),(a,0,0)] the tool's axis, the image
\* of (0,0,1), is (cos a, sin a, 0): horizontal, at azimuth a; it is +X,
\* +Y, -X and -Y for a = 0, 90, 180 and 270.
C26_AxisAtAzimuth ==
    PitchThenAzimuth =>
        /\ multVec(ret, VecI(0, 0, 1)) =
              Vector(cos(Azimuth), sin(Azimuth), Zero)
        /\ Azimuth = 0 => multVec(ret, VecI(0, 0, 1)) = VecI(1, 0, 0)
        /\ Azimuth = 90 => multVec(ret, VecI(0, 0, 1)) = VecI(0, 1, 0)
        /\ Azimuth = 180 => multVec(ret, VecI(0, 0, 1)) = VecI(0 - 1, 0, 0)
        /\ Azimuth = 270 => multVec(ret, VecI(0, 0, 1)) = VecI(0, 0 - 1, 0)

\* a = 135: the axis points between -X and +Y.
C26_Witness ==
    /\ PitchThenAzimuth
    /\ Azimuth = 135
    /\ multVec(ret, VecI(0, 0, 1)) = Vector(Num(0, 0 - 1, 1), Num(0, 1, 1), Zero)

\* A statement of a recipe was make_hole with through_hole=True; its
\* target, its tool, and the distance of a point from hole_position along
\* the tool's axis.
ThroughHoleOfRecipe ==
    /\ last.op = "make_hole"
    /\ last.args # <<>>
    /\ last.args.values.through_hole
HoleTarget == last.args.objects[1] + Len(last.start)
HoleTool == doc[Len(last.doc) + 1]
Along(v) ==
    Dot(VSub(v, last.args.values.hole_position),
        Col(HoleTool.Placement.Rotation, 3))
Corners(B) ==
    {<<x, y, z>> : x \in {B.lo[1], B.hi[1]}, y \in {B.lo[2], B.hi[2]},
                   z \in {B.lo[3], B.hi[3]}}

\* C27: in a recipe, the target of every make_hole with through_hole=True
\* lies, along the hole axis, between half the tool height behind
\* hole_position and half the tool height ahead of it, which is the
\* stretch the tool covers: the hole goes through.
C27_ThroughHolesPenetrate ==
    ThroughHoleOfRecipe =>
        /\ \A c \in Corners(BoxOf(last.doc, HoleTarget)) :
              /\ Leq(Neg(Half(HoleTool.Height)), Along(c))
              /\ Leq(Along(c), Half(HoleTool.Height))
        /\ Along(HoleTool.Placement.Base) = Neg(Half(HoleTool.Height))
        /\ HoleTool.Height = last.args.values.hole_height

\* A through hole along X in the turned plate of
\* create_second_motor_holder_in_reduction, tool height 1000.
C27_Witness ==
    /\ ThroughHoleOfRecipe
    /\ last.recipe = "holder_in_reduction"
    /\ Col(HoleTool.Placement.Rotation, 3) # VecI(0, 0, 1)
    /\ HoleTool.Height = I(1000)
    /\ err = "none"

\* A statement of a recipe was create_centered_rectangle and added its
\* box; the box, and the definitions that offset it by
\* (-width/2, -length/2, 0).
RectangleOfRecipe ==
    /\ last.op = "create_centered_rectangle"
    /\ last.args # <<>>
    /\ Len(doc) > Len(last.doc)
RecipeBox == doc[Len(last.doc) + 1]
SwappedDefs == {"create_base_v1", "part_000"}

\* C28: every call a recipe makes of a create_centered_rectangle that
\* offsets the box by (-width/2, -length/2, 0) has length = width, and
\* every box a recipe creates spans -Length/2..Length/2 in X and
\* -Width/2..Width/2 in Y: it is centered on the origin in X and Y.
C28_RecipeBoxesCentered ==
    RectangleOfRecipe =>
        /\ RectangleDefOf(last.args.values) \in SwappedDefs =>
              last.args.values.length = last.args.values.width
        /\ RecipeBox.TypeId = "Part::Box"
        /\ RecipeBox.Length = last.args.values.length
        /\ RecipeBox.Width = last.args.values.width
        /\ Add(RecipeBox.Placement.Base[1], Half(RecipeBox.Length)) = Zero
        /\ Add(RecipeBox.Placement.Base[2], Half(RecipeBox.Width)) = Zero

\* The main of src/unnamed/part_000 has created a 10 by 10 box with the
\* swapped offset, which stands at (-5, -5, 0).
C28_Witness ==
    /\ RectangleOfRecipe
    /\ last.recipe = "part_000"
    /\ RectangleDefOf(last.args.values) = "part_000"
    /\ RecipeBox.Placement.Base = VecI(0 - 5, 0 - 5, 0)
    /\ err = "none"

\* A statement of a recipe was create_hollow_cylinder, and the object it
\* added.
HollowCylinderOfRecipe ==
    /\ last.op = "create_hollow_cylinder"
    /\ last.args # <<>>
RecipeHollowCylinder == doc[Len(last.doc) + 1]

\* C29: every create_hollow_cylinder a recipe calls has inner_radius <
\* outer_radius and does not end in the ValueError of the radius check;
\* when the host makes the shape, it is made of the radii as given, an
\* inner radius of zero included.
C29_NoInvalidRadii ==
    HollowCylinderOfRecipe =>
        /\ Lt(last.args.values.inner_radius, last.args.values.outer_radius)
        /\ err # "ValueError"
        /\ err = "none" =>
              /\ Len(doc) = Len(last.doc) + 1
              /\ RecipeHollowCylinder.Shape.kind = "HollowCylinder"
              /\ RecipeHollowCylinder.Shape.inner = last.args.values.inner_radius
              /\ RecipeHollowCylinder.Shape.outer = last.args.values.outer_radius

\* Line 384 of create_first_joint_v2.py has passed the check with
\* inner_radius = 0 and the shape has an inner cylinder of radius zero.
C29_Witness ==
    /\ HollowCylinderOfRecipe
    /\ last.recipe = "first_joint_v2"
    /\ last.args.values.line = 384
    /\ last.args.values.inner_radius = Zero
    /\ err = "none"
    /\ RecipeHollowCylinder.Shape.inner = Zero

====
